---- MODULE Spec2Model ----
(***************************************************************************)
(* Workflow loader of dx-solar-flow: include expansion, deserialization    *)
(* and DAG construction (src/src/workflow/workflow.rs).                    *)
(*                                                                         *)
(* A text is a sequence of characters.  The alphabet keeps the characters  *)
(* the expander's regular expression distinguishes one by one ("\n", " ",  *)
(* "-", "!") and abbreviates each run of other characters that the         *)
(* expander never looks into by one symbol: "inc" is the word `include`,   *)
(* "b" and "c" are file names, "x" and "y" are opaque text, and symbols    *)
(* such as "id=n1" are one `key: value` entry of a YAML mapping.           *)
(*                                                                         *)
(* Second part: the location resolver Uri::parse_str                       *)
(* (src/src/workflow/uri.rs), with the characters ":", "/", "~" and "."    *)
(* one by one and "file", "ram", "ftp", "x", "h", "w" standing for words.  *)
(*                                                                         *)
(* Third part: the two editor components, Graph                            *)
(* (src/src/components/graph.rs) and Flow (src/src/components/flow.rs),    *)
(* one handler per action, with petgraph's Graph as a pair of sequences.   *)
(***************************************************************************)
EXTENDS Integers, Sequences, FiniteSets, TLC

VARIABLES fs, pc, yaml_content, workflow_def, graphs_iter, graph, result

\* The environment variables of the process: records of a name and a value.
VARIABLES env

\* Uri::parse_str: its argument, the environment it reads, its position,
\* its locals and what it returns.
VARIABLES uri_str, home_dir, current_dir, uri_pc, protocol, path, uri_result

\* Uri::path on the location returned: whether the file system holds a
\* directory at its path, and the PathBuf the accessor returns.
VARIABLES dir_on_disk, path_buf

loaderVars ==
  <<fs, pc, yaml_content, workflow_def, graphs_iter, graph, result, env>>

uriVars ==
  <<uri_str, home_dir, current_dir, uri_pc, protocol, path, uri_result,
    dir_on_disk, path_buf>>

\* The editor components.  `view` tells which of the two is mounted;
\* graph_signal is the `graph` property of Graph, workflow the `workflow`
\* property of Flow; the other variables are the signals both components
\* declare alike (graph.rs 40-80, flow.rs 11-46).  `panicked` is set when a
\* handler panics.
VARIABLES view, graph_signal, workflow, node_positions, dragging_node,
          editing_mode, selected_nodes, current_selection, active_tab,
          panicked

editorVars ==
  <<view, graph_signal, workflow, node_positions, dragging_node,
    editing_mode, selected_nodes, current_selection, active_tab, panicked>>

vars == <<loaderVars, uriVars, editorVars>>

(***************************************************************************)
(* Characters and strings                                                  *)
(***************************************************************************)

\* The regex class \s and char::is_whitespace on the alphabet.
IsWs(c) == c \in {" ", "\n"}

Max(S) == CHOOSE m \in S : \A n \in S : n <= m

\* First position q >= p of t that holds no whitespace (Len(t)+1 if none).
SkipWs(t, p) ==
  CHOOSE q \in p..(Len(t) + 1) :
    /\ \A r \in p..(q - 1) : IsWs(t[r])
    /\ q = Len(t) + 1 \/ ~IsWs(t[q])

\* First position q >= p of t that holds a line feed (Len(t)+1 if none).
LineEnd(t, p) ==
  CHOOSE q \in p..(Len(t) + 1) :
    /\ \A r \in p..(q - 1) : t[r] # "\n"
    /\ q = Len(t) + 1 \/ t[q] = "\n"

\* str::trim
Trim(t) ==
  IF \A i \in 1..Len(t) : IsWs(t[i]) THEN <<>>
  ELSE LET a == CHOOSE i \in 1..Len(t) : ~IsWs(t[i]) /\ \A j \in 1..(i - 1) : IsWs(t[j])
           b == CHOOSE i \in 1..Len(t) : ~IsWs(t[i]) /\ \A j \in (i + 1)..Len(t) : IsWs(t[j])
       IN SubSeq(t, a, b)

\* str::lines: the pieces between line feeds, without a last empty piece.
RECURSIVE LinesFrom(_, _)
LinesFrom(t, p) ==
  IF p > Len(t) THEN <<>>
  ELSE LET e == LineEnd(t, p)
       IN <<SubSeq(t, p, e - 1)>> \o LinesFrom(t, e + 1)

Lines(t) == LinesFrom(t, 1)

\* [&str]::join("\n")
RECURSIVE JoinLines(_)
JoinLines(ls) ==
  IF Len(ls) = 0 THEN <<>>
  ELSE IF Len(ls) = 1 THEN ls[1]
  ELSE ls[1] \o <<"\n">> \o JoinLines(Tail(ls))

(***************************************************************************)
(* The include pattern of resolve_includes (workflow.rs line 96): at a line *)
(* start, whitespace (group 1), "-", whitespace, "!", whitespace,          *)
(* "include", at least one whitespace, then one or more characters other   *)
(* than a line feed (group 2).                                             *)
(***************************************************************************)

\* (?m)^ : the start of the text or the position after a line feed.
IsLineStart(t, p) == p = 1 \/ t[p - 1] = "\n"

\* The match of the pattern that starts at position p, if there is one.
\* Whitespace runs are greedy and cross line feeds; the run before group 2
\* gives characters back until group 2 finds a character to start with.
MatchAt(t, p) ==
  LET dash == SkipWs(t, p)
      bang == SkipWs(t, dash + 1)
      word == SkipWs(t, bang + 1)
      gap  == word + 1
      gapEnd == SkipWs(t, gap)
      starts == {s \in (gap + 1)..gapEnd : s <= Len(t) /\ t[s] # "\n"}
      head == /\ dash <= Len(t) /\ t[dash] = "-"
              /\ bang <= Len(t) /\ t[bang] = "!"
              /\ word <= Len(t) /\ t[word] = "inc"
              /\ starts # {}
  IN IF ~head THEN [ok |-> FALSE]
     ELSE LET ps == Max(starts)
              pe == LineEnd(t, ps)
          IN [ok |-> TRUE, start |-> p, end |-> pe,
              indent |-> SubSeq(t, p, dash - 1),
              path |-> SubSeq(t, ps, pe - 1)]

\* Regex::captures_iter: the leftmost match at or after p, then the matches
\* after its end; matches never overlap.
RECURSIVE CapturesFrom(_, _)
CapturesFrom(t, p) ==
  LET cands == {q \in p..Len(t) : IsLineStart(t, q) /\ MatchAt(t, q).ok}
  IN IF cands = {} THEN <<>>
     ELSE LET q == CHOOSE c \in cands : \A d \in cands : c <= d
              m == MatchAt(t, q)
          IN <<m>> \o CapturesFrom(t, m.end)

captures_iter(t) == CapturesFrom(t, 1)

(***************************************************************************)
(* Paths and the file system                                               *)
(***************************************************************************)

\* A path is the sequence of its components; in a text "/" separates them.
RECURSIVE Components(_)
Components(str) ==
  IF str = <<>> THEN <<>>
  ELSE LET e == CHOOSE q \in 1..(Len(str) + 1) :
                  /\ \A r \in 1..(q - 1) : str[r] # "/"
                  /\ q = Len(str) + 1 \/ str[q] = "/"
           first == IF e = 1 THEN <<>> ELSE <<SubSeq(str, 1, e - 1)>>
       IN first \o Components(SubSeq(str, e + 1, Len(str)))

\* Path::parent, or "." (the empty path) for a path without a parent.
Parent(file_path) ==
  IF Len(file_path) = 0 THEN <<>> ELSE SubSeq(file_path, 1, Len(file_path) - 1)

\* The path handed to load_from_path: a file of the directory d, named
\* relative to the working directory of the process.
RootPath == <<(<<"d">>), (<<"a">>)>>

\* PathJoin on the directory of the root document, whatever file holds the
\* directive.
PathJoinFromRoot(file_path, file_path_str) ==
  IF file_path_str # <<>> /\ file_path_str[1] = "/"
    THEN <<(<<"/">>)>> \o Components(file_path_str)
    ELSE Parent(RootPath) \o Components(file_path_str)

\* parent_dir.join(file_path_str): an absolute path replaces the directory.
PathJoin(file_path, file_path_str) ==
  IF file_path_str # <<>> /\ file_path_str[1] = "/"
    THEN <<(<<"/">>)>> \o Components(file_path_str)
    ELSE Parent(file_path) \o Components(file_path_str)

\* fs::read_to_string
Readable(files, file_path) == file_path \in DOMAIN files

(***************************************************************************)
(* Workflow::resolve_includes                                              *)
(***************************************************************************)

\* The layout of one included text (formatted_lines, lines 117-134).
RECURSIVE FormatLines(_, _, _)
FormatLines(indent, lines, i) ==
  IF i > Len(lines) THEN <<>>
  ELSE LET line == lines[i]
           out == IF i = 1 THEN indent \o line
                  ELSE IF Trim(line) = <<>> THEN line
                  ELSE indent \o <<" ", " ">> \o line
       IN <<out>> \o FormatLines(indent, lines, i + 1)

FormatIncluded(indent, included_content) ==
  JoinLines(FormatLines(indent, Lines(included_content), 1))

Min(S) == CHOOSE m \in S : \A n \in S : m <= n

\* ApplySubstitutions going from the first match to the last: each splice
\* uses the offsets of the original text on the text rewritten so far (a
\* slice is cut off at the end of the text).
RECURSIVE ApplySubstitutionsAscending(_, _)
ApplySubstitutionsAscending(res, substitutions) ==
  IF Len(substitutions) = 0 THEN res
  ELSE LET first == CHOOSE i \in 1..Len(substitutions) :
                      \A j \in 1..Len(substitutions) :
                        substitutions[i].start <= substitutions[j].start
           s == substitutions[first]
           rest == [k \in 1..(Len(substitutions) - 1) |->
                      IF k < first THEN substitutions[k] ELSE substitutions[k + 1]]
       IN ApplySubstitutionsAscending(
            SubSeq(res, 1, Min({s.start - 1, Len(res)})) \o s.text
              \o SubSeq(res, Min({s.end, Len(res) + 1}), Len(res)),
            rest)

\* Lines 141-148: the substitutions sorted by descending start, each spliced
\* into the result built so far.
RECURSIVE ApplySubstitutions(_, _)
ApplySubstitutions(res, substitutions) ==
  IF Len(substitutions) = 0 THEN res
  ELSE LET last == CHOOSE i \in 1..Len(substitutions) :
                     \A j \in 1..Len(substitutions) :
                       substitutions[j].start <= substitutions[i].start
           s == substitutions[last]
           rest == [k \in 1..(Len(substitutions) - 1) |->
                      IF k < last THEN substitutions[k] ELSE substitutions[k + 1]]
       IN ApplySubstitutions(
            SubSeq(res, 1, s.start - 1) \o s.text \o SubSeq(res, s.end, Len(res)),
            rest)

\* resolve_includes(file_path) on the files `files`.  `anc` holds the paths
\* of the calls this call is nested in: a call on one of them recurses
\* without end (the files do not change), so it yields no result ("diverge").
RECURSIVE resolve_includes(_, _, _)
RECURSIVE ResolveMatches(_, _, _, _, _, _)

\* ResolveMatches with the error of an include dropped instead of returned:
\* the directive of a file that cannot be read stays as it is.
ResolveMatchesKeepGoing(files, file_path, anc, matches, i, substitutions) ==
  IF i > Len(matches) THEN [st |-> "ok", subs |-> substitutions]
  ELSE LET cap == matches[i]
           inc == resolve_includes(files, PathJoin(file_path, Trim(cap.path)),
                                   anc \cup {file_path})
       IN ResolveMatches(files, file_path, anc, matches, i + 1,
            IF inc.st # "ok" THEN substitutions
            ELSE Append(substitutions,
                        [start |-> cap.start, end |-> cap.end,
                         text |-> FormatIncluded(cap.indent, inc.text)]))

ResolveMatches(files, file_path, anc, matches, i, substitutions) ==
  IF i > Len(matches) THEN [st |-> "ok", subs |-> substitutions]
  ELSE LET cap == matches[i]
           file_path_str == Trim(cap.path)
           included_path == PathJoin(file_path, file_path_str)
           inc == resolve_includes(files, included_path, anc \cup {file_path})
       IN IF inc.st # "ok" THEN [st |-> inc.st, subs |-> <<>>]
          ELSE ResolveMatches(files, file_path, anc, matches, i + 1,
                 Append(substitutions,
                        [start |-> cap.start, end |-> cap.end,
                         text |-> FormatIncluded(cap.indent, inc.text)]))

\* resolve_includes without the recursive call on the included file: the
\* text of an included file is inserted as it was read.
resolve_includes_once(files, file_path, anc) ==
  IF ~Readable(files, file_path) THEN [st |-> "err", text |-> <<>>]
  ELSE IF anc # {} THEN [st |-> "ok", text |-> files[file_path]]
  ELSE LET content == files[file_path]
           r == ResolveMatches(files, file_path, anc, captures_iter(content), 1, <<>>)
       IN IF r.st # "ok" THEN [st |-> r.st, text |-> <<>>]
          ELSE [st |-> "ok", text |-> ApplySubstitutions(content, r.subs)]

resolve_includes(files, file_path, anc) ==
  IF file_path \in anc THEN [st |-> "diverge", text |-> <<>>]
  ELSE IF ~Readable(files, file_path) THEN [st |-> "err", text |-> <<>>]
  ELSE LET content == files[file_path]
           r == ResolveMatches(files, file_path, anc, captures_iter(content), 1, <<>>)
       IN IF r.st # "ok" THEN [st |-> r.st, text |-> <<>>]
          ELSE [st |-> "ok", text |-> ApplySubstitutions(content, r.subs)]

(***************************************************************************)
(* serde_yaml on the block subset of YAML the workflow documents use:      *)
(* mappings of `key: value` entries and `- ` sequences nested by           *)
(* indentation.  One symbol of the alphabet is one entry.                  *)
(***************************************************************************)

\* <<symbol, key, scalar value>>; a key with a nested block has value "".
Entries ==
  { <<"id=w", "id", "w">>, <<"id=g1", "id", "g1">>, <<"id=g2", "id", "g2">>,
    <<"id=n1", "id", "n1">>, <<"id=n2", "id", "n2">>, <<"id=n3", "id", "n3">>,
    <<"id=e1", "id", "e1">>,
    <<"name=W", "name", "W">>, <<"name=G", "name", "G">>,
    <<"name=N", "name", "N">>,
    <<"type=action", "type", "action">>,
    <<"from=n1", "from", "n1">>, <<"from=n2", "from", "n2">>,
    <<"from=n9", "from", "n9">>,
    <<"to=n1", "to", "n1">>, <<"to=n2", "to", "n2">>, <<"to=n9", "to", "n9">>,
    <<"graphs:", "graphs", "">>, <<"nodes:", "nodes", "">>,
    <<"edges:", "edges", "">>,
    <<"id=U1", "id", "00000000-0000-4000-8000-000000000001">>,
    <<"id=U2", "id", "00000000-0000-4000-8000-000000000002">>,
    <<"id=U3", "id", "00000000-0000-4000-8000-000000000003">>,
    <<"entryGraphId=g1", "entryGraphId", "g1">>,
    <<"entryGraphId=U2", "entryGraphId", "00000000-0000-4000-8000-000000000002">>,
    <<"version=1", "version", "1">>,
    <<"action=A", "action", "A">>,
    <<"type=subGraph", "type", "subGraph">>,
    <<"type=other", "type", "other">>,
    <<"subGraphId=g2", "subGraphId", "g2">>,
    <<"subGraphId=U2", "subGraphId", "00000000-0000-4000-8000-000000000002">>,
    <<"with:", "with", "">>, <<"entryGraphId=g9", "entryGraphId", "g9">>,
    <<"threshold=1", "threshold", "1">>, <<"limit=2", "limit", "2">> }

EntrySymbols == {e[1] : e \in Entries}
EntryOf(tok) == CHOOSE e \in Entries : e[1] = tok
KeyOf(tok) == EntryOf(tok)[2]
ScalarOf(tok) == EntryOf(tok)[3]
OpensBlock(tok) == ScalarOf(tok) = ""

Null == [k |-> "null"]
Str(s) == [k |-> "str", s |-> s]
SeqV(items) == [k |-> "seq", items |-> items]
MapV(ents) == [k |-> "map", ents |-> ents]

\* One line of text as the parser sees it: nothing for a blank line, a "-"
\* indicator at its column, an entry at its column, or both for `- key: v`.
YamlLine(line) ==
  LET ind == SkipWs(line, 1) - 1
      rest == Trim(line)
  IN IF rest = <<>> THEN <<>>
     ELSE IF rest = <<"-">> THEN <<[ind |-> ind, kind |-> "dash", tok |-> ""]>>
     ELSE IF Len(rest) = 1 /\ rest[1] \in EntrySymbols
       THEN <<[ind |-> ind, kind |-> "key", tok |-> rest[1]]>>
     ELSE IF /\ Len(rest) >= 3 /\ rest[1] = "-" /\ rest[Len(rest)] \in EntrySymbols
             /\ \A j \in 2..(Len(rest) - 1) : rest[j] = " "
       THEN <<[ind |-> ind, kind |-> "dash", tok |-> ""],
              [ind |-> ind + Len(rest) - 1, kind |-> "key", tok |-> rest[Len(rest)]]>>
     ELSE <<[ind |-> ind, kind |-> "bad", tok |-> ""]>>

RECURSIVE YamlLines(_, _)
YamlLines(lines, i) ==
  IF i > Len(lines) THEN <<>>
  ELSE YamlLine(lines[i]) \o YamlLines(lines, i + 1)

HasKey(ents, key) == \E j \in 1..Len(ents) : ents[j].key = key

RECURSIVE ParseNode(_, _)
RECURSIVE ParseSeq(_, _, _, _)
RECURSIVE ParseMap(_, _, _, _)

\* The block that starts at line i: [ok, val, next].
ParseNode(ls, i) ==
  IF ls[i].kind = "dash" THEN ParseSeq(ls, i, ls[i].ind, <<>>)
  ELSE IF ls[i].kind = "key" THEN ParseMap(ls, i, ls[i].ind, <<>>)
  ELSE [ok |-> FALSE]

\* A block sequence whose "-" indicators stand at column n.
ParseSeq(ls, i, n, items) ==
  IF i > Len(ls) \/ ls[i].ind < n \/ (ls[i].ind = n /\ ls[i].kind = "key")
    THEN [ok |-> TRUE, val |-> SeqV(items), next |-> i]
  ELSE IF ls[i].ind > n \/ ls[i].kind # "dash" THEN [ok |-> FALSE]
  ELSE IF i + 1 <= Len(ls) /\ ls[i + 1].ind > n
    THEN LET r == ParseNode(ls, i + 1)
         IN IF ~r.ok THEN [ok |-> FALSE]
            ELSE ParseSeq(ls, r.next, n, Append(items, r.val))
  ELSE ParseSeq(ls, i + 1, n, Append(items, Null))

\* A block mapping whose keys stand at column n.
ParseMap(ls, i, n, ents) ==
  IF i > Len(ls) \/ ls[i].ind < n \/ (ls[i].ind = n /\ ls[i].kind = "dash")
    THEN [ok |-> TRUE, val |-> MapV(ents), next |-> i]
  ELSE IF ls[i].ind > n \/ ls[i].kind # "key" THEN [ok |-> FALSE]
  ELSE IF HasKey(ents, KeyOf(ls[i].tok)) THEN [ok |-> FALSE]
  ELSE IF ~OpensBlock(ls[i].tok)
    THEN ParseMap(ls, i + 1, n,
           Append(ents, [key |-> KeyOf(ls[i].tok), val |-> Str(ScalarOf(ls[i].tok))]))
  ELSE IF i + 1 <= Len(ls)
          /\ (ls[i + 1].ind > n \/ (ls[i + 1].ind = n /\ ls[i + 1].kind = "dash"))
    THEN LET r == ParseNode(ls, i + 1)
         IN IF ~r.ok THEN [ok |-> FALSE]
            ELSE ParseMap(ls, r.next, n,
                   Append(ents, [key |-> KeyOf(ls[i].tok), val |-> r.val]))
  ELSE ParseMap(ls, i + 1, n, Append(ents, [key |-> KeyOf(ls[i].tok), val |-> Null]))

\* The document as a serde_yaml::Value: [ok, val].
ParseYaml(text) ==
  LET ls == YamlLines(Lines(text), 1)
  IN IF ls = <<>> THEN [ok |-> TRUE, val |-> Null]
     ELSE LET r == ParseNode(ls, 1)
          IN IF r.ok /\ r.next = Len(ls) + 1 THEN [ok |-> TRUE, val |-> r.val]
             ELSE [ok |-> FALSE]

(***************************************************************************)
(* The typed definitions (workflow.rs lines 11-38)                         *)
(***************************************************************************)

Field(v, key) ==
  IF HasKey(v.ents, key)
    THEN (CHOOSE e \in {v.ents[j] : j \in 1..Len(v.ents)} : e.key = key).val
    ELSE [k |-> "missing"]

\* A required String field.
HasString(v, key) == Field(v, key).k = "str"

\* serde_yaml::from_value::<NodeDefinition>
IsNodeDefinition(v) ==
  /\ v.k = "map"
  /\ HasString(v, "id") /\ HasString(v, "name") /\ HasString(v, "type")
  /\ Field(v, "action").k \in {"missing", "null", "str"}
  /\ Field(v, "with").k \in {"missing", "null", "map"}

NodeDefinition(v) ==
  [id |-> Field(v, "id").s, name |-> Field(v, "name").s,
   node_type |-> Field(v, "type").s]

\* serde_yaml::from_value::<GraphDefinition>: every field and every element
\* of `nodes` has to deserialize; keys the struct does not name are ignored.
IsGraphDefinition(v) ==
  /\ v.k = "map"
  /\ HasString(v, "id") /\ HasString(v, "name")
  /\ Field(v, "nodes").k = "seq"
  /\ \A j \in 1..Len(Field(v, "nodes").items) :
       IsNodeDefinition(Field(v, "nodes").items[j])

GraphDefinition(v) ==
  [id |-> Field(v, "id").s, name |-> Field(v, "name").s,
   nodes |-> [j \in 1..Len(Field(v, "nodes").items) |->
                NodeDefinition(Field(v, "nodes").items[j])]]

\* HashMap<String, serde_yaml::Value> from a mapping.
HashMap(v) ==
  [key \in {v.ents[j].key : j \in 1..Len(v.ents)} |-> Field(v, key)]

\* WorkflowDefinition with `graphs` defaulting to an empty list when the
\* document has no such key.
WorkflowDefinitionDefaultGraphs(text) ==
  LET y == ParseYaml(text)
  IN IF /\ y.ok /\ y.val.k = "map"
        /\ HasString(y.val, "id") /\ HasString(y.val, "name")
        /\ Field(y.val, "entryGraphId").k \in {"missing", "null", "str"}
        /\ Field(y.val, "with").k \in {"missing", "null", "map"}
        /\ Field(y.val, "graphs").k \in {"missing", "seq"}
     THEN [ok |-> TRUE,
           def |-> [id |-> Field(y.val, "id").s,
                    name |-> Field(y.val, "name").s,
                    entry_graph_id |->
                      IF Field(y.val, "entryGraphId").k = "str"
                        THEN <<Field(y.val, "entryGraphId").s>> ELSE <<>>,
                    with_params |->
                      IF Field(y.val, "with").k = "map"
                        THEN <<HashMap(Field(y.val, "with"))>> ELSE <<>>,
                    graphs |-> IF Field(y.val, "graphs").k = "seq"
                                 THEN Field(y.val, "graphs").items ELSE <<>>]]
     ELSE [ok |-> FALSE]

\* serde_yaml::from_str::<WorkflowDefinition>: [ok, def].
WorkflowDefinition(text) ==
  LET y == ParseYaml(text)
  IN IF /\ y.ok /\ y.val.k = "map"
        /\ HasString(y.val, "id") /\ HasString(y.val, "name")
        /\ Field(y.val, "entryGraphId").k \in {"missing", "null", "str"}
        /\ Field(y.val, "with").k \in {"missing", "null", "map"}
        /\ Field(y.val, "graphs").k = "seq"
     THEN [ok |-> TRUE,
           def |-> [id |-> Field(y.val, "id").s,
                    name |-> Field(y.val, "name").s,
                    entry_graph_id |->
                      IF Field(y.val, "entryGraphId").k = "str"
                        THEN <<Field(y.val, "entryGraphId").s>> ELSE <<>>,
                    with_params |->
                      IF Field(y.val, "with").k = "map"
                        THEN <<HashMap(Field(y.val, "with"))>> ELSE <<>>,
                    graphs |-> Field(y.val, "graphs").items]]
     ELSE [ok |-> FALSE]

(***************************************************************************)
(* Workflow::load_from_path                                                *)
(***************************************************************************)

\* The files next to the root document, and those of its subdirectory s.
InDir(name) == <<(<<"d">>), name>>
InSub(name) == <<(<<"d">>), (<<"s">>), name>>
FileB == InDir(<<"b">>)
FileC == InDir(<<"c">>)
FileSB == InSub(<<"b">>)
FileSC == InSub(<<"c">>)
FileCwdC == <<(<<"c">>)>>

\* DiGraph::new()
EmptyGraph == [nodes |-> <<>>, edges |-> <<>>]

NoDefinition ==
  [id |-> "", name |-> "", entry_graph_id |-> <<>>, with_params |-> <<>>,
   graphs |-> <<>>]

\* AddNodes with the graph's name in the place of the graph's id.
AddNodesNamed(g, graph_def) ==
  [g EXCEPT !.nodes = @ \o [j \in 1..Len(graph_def.nodes) |->
                              [id |-> graph_def.nodes[j].id,
                               name |-> graph_def.nodes[j].name,
                               subgraph |-> graph_def.name]]]

\* Lines 70-77: one DAG node per node definition of the graph, in order.
AddNodes(g, graph_def) ==
  [g EXCEPT !.nodes = @ \o [j \in 1..Len(graph_def.nodes) |->
                              [id |-> graph_def.nodes[j].id,
                               name |-> graph_def.nodes[j].name,
                               subgraph |-> graph_def.id]]]

\* ProcessGraphValue deserializing node by node: of a graph with a node
\* definition that does not fit, the other nodes are inserted.
ProcessGraphValuePerNode(g, graph_value) ==
  IF /\ graph_value.k = "map"
     /\ HasString(graph_value, "id") /\ HasString(graph_value, "name")
     /\ Field(graph_value, "nodes").k = "seq"
    THEN LET items == Field(graph_value, "nodes").items
             F[i \in 0..Len(items)] ==
               IF i = 0 THEN <<>>
               ELSE IF IsNodeDefinition(items[i])
                 THEN Append(F[i - 1], NodeDefinition(items[i]))
               ELSE F[i - 1]
         IN AddNodes(g, [id |-> Field(graph_value, "id").s,
                         name |-> Field(graph_value, "name").s,
                         nodes |-> F[Len(items)]])
    ELSE g

\* Lines 69-78: the body of the loop for one element of workflow_def.graphs.
ProcessGraphValue(g, graph_value) ==
  IF IsGraphDefinition(graph_value)
    THEN AddNodes(g, GraphDefinition(graph_value))
    ELSE g

\* Line 60: let yaml_content = Self::resolve_includes(&path)?
\* The first step with cycle detection: an include cycle is an error.
ResolveIncludesCycleAsError ==
  /\ pc = "start"
  /\ LET r == resolve_includes(fs, RootPath, {})
     IN /\ pc' = IF r.st = "ok" THEN "resolved" ELSE "failed"
        /\ yaml_content' = IF r.st = "ok" THEN <<r.text>> ELSE <<>>
        /\ result' = IF r.st # "ok" THEN [kind |-> "Err", error |-> "io"]
                     ELSE result
  /\ UNCHANGED <<env, fs, workflow_def, graphs_iter, graph>>
  /\ UNCHANGED <<uriVars, editorVars>>

ResolveIncludes ==
  /\ pc = "start"
  /\ LET r == resolve_includes(fs, RootPath, {})
     IN /\ pc' = CASE r.st = "ok" -> "resolved"
                   [] r.st = "err" -> "failed"
                   [] OTHER -> "overflow"
        /\ yaml_content' = IF r.st = "ok" THEN <<r.text>> ELSE <<>>
        /\ result' = IF r.st = "err" THEN [kind |-> "Err", error |-> "io"]
                     ELSE result
  /\ UNCHANGED <<env, fs, workflow_def, graphs_iter, graph>>
  /\ UNCHANGED <<uriVars, editorVars>>

\* Lines 61-64: deserialize the expanded text, then start with an empty graph.
\* The ids of the graphs of a definition, for the graphs that have one.
DefinedGraphIds(def) ==
  {Field(def.graphs[j], "id").s :
     j \in {i \in 1..Len(def.graphs) : /\ def.graphs[i].k = "map"
                                       /\ Field(def.graphs[i], "id").k = "str"}}

\* Deserialize refusing a definition whose entryGraphId is the id of none of
\* its graphs.
DeserializeCheckedEntry ==
  /\ pc = "resolved"
  /\ LET d == WorkflowDefinition(yaml_content[1])
     IN IF d.ok /\ (\/ d.def.entry_graph_id = <<>>
                    \/ d.def.entry_graph_id[1] \in DefinedGraphIds(d.def))
          THEN /\ workflow_def' = d.def
               /\ graphs_iter' = 1
               /\ pc' = "building"
               /\ result' = result
          ELSE /\ pc' = "failed"
               /\ result' = [kind |-> "Err", error |-> "yaml"]
               /\ UNCHANGED <<workflow_def, graphs_iter>>
  /\ graph' = EmptyGraph
  /\ UNCHANGED <<env, fs, yaml_content>>
  /\ UNCHANGED <<uriVars, editorVars>>

Deserialize ==
  /\ pc = "resolved"
  /\ LET d == WorkflowDefinition(yaml_content[1])
     IN IF d.ok
          THEN /\ workflow_def' = d.def
               /\ graphs_iter' = 1
               /\ pc' = "building"
               /\ result' = result
          ELSE /\ pc' = "failed"
               /\ result' = [kind |-> "Err", error |-> "yaml"]
               /\ UNCHANGED <<workflow_def, graphs_iter>>
  /\ graph' = EmptyGraph
  /\ UNCHANGED <<env, fs, yaml_content>>
  /\ UNCHANGED <<uriVars, editorVars>>

\* BuildGraph returning an error for a graph that does not deserialize,
\* with the nodes of the graphs before it already inserted.
BuildGraphOrFail ==
  /\ pc = "building"
  /\ graphs_iter <= Len(workflow_def.graphs)
  /\ IF IsGraphDefinition(workflow_def.graphs[graphs_iter])
       THEN /\ graph' = ProcessGraphValue(graph, workflow_def.graphs[graphs_iter])
            /\ graphs_iter' = graphs_iter + 1
            /\ UNCHANGED <<pc, result>>
       ELSE /\ pc' = "failed"
            /\ result' = [kind |-> "Err", error |-> "yaml"]
            /\ UNCHANGED <<graph, graphs_iter>>
  /\ UNCHANGED <<env, fs, yaml_content, workflow_def>>
  /\ UNCHANGED <<uriVars, editorVars>>

\* Lines 67-79: one iteration of `for graph_value in workflow_def.graphs`.
BuildGraph ==
  /\ pc = "building"
  /\ graphs_iter <= Len(workflow_def.graphs)
  /\ graph' = ProcessGraphValue(graph, workflow_def.graphs[graphs_iter])
  /\ graphs_iter' = graphs_iter + 1
  /\ UNCHANGED <<env, fs, pc, yaml_content, workflow_def, result>>
  /\ UNCHANGED <<uriVars, editorVars>>

\* ReturnWorkflow without the entry graph of the definition.
ReturnWorkflowNoEntry ==
  /\ pc = "building"
  /\ graphs_iter > Len(workflow_def.graphs)
  /\ result' = [kind |-> "Ok",
                workflow |-> [id |-> workflow_def.id,
                              name |-> workflow_def.name,
                              entry_graph_id |-> <<>>,
                              graph |-> graph]]
  /\ pc' = "done"
  /\ UNCHANGED <<env, fs, yaml_content, workflow_def, graphs_iter, graph>>
  /\ UNCHANGED <<uriVars, editorVars>>

\* Lines 81-86: Ok(Workflow { .. })
ReturnWorkflow ==
  /\ pc = "building"
  /\ graphs_iter > Len(workflow_def.graphs)
  /\ result' = [kind |-> "Ok",
                workflow |-> [id |-> workflow_def.id,
                              name |-> workflow_def.name,
                              entry_graph_id |-> workflow_def.entry_graph_id,
                              graph |-> graph]]
  /\ pc' = "done"
  /\ UNCHANGED <<env, fs, yaml_content, workflow_def, graphs_iter, graph>>
  /\ UNCHANGED <<uriVars, editorVars>>

(***************************************************************************)
(* The documents a load is run on                                          *)
(***************************************************************************)

\* The most node definitions one workflow document declares.
MaxNodes == 3

\* The most lines of a free-form text.
MaxLines == 3

Sp(n) == [i \in 1..n |-> " "]

RECURSIVE Concat(_)
Concat(ss) == IF Len(ss) = 0 THEN <<>> ELSE ss[1] \o Concat(Tail(ss))

TextOf(lines) == IF Len(lines) = 0 THEN <<>> ELSE JoinLines(lines) \o <<"\n">>

\* A node is declared with id n1 or n2, or (n3) without its `type` entry.
NodeKinds == {"n1", "n2", "n3"}
GraphIds == <<"g1", "g2">>

NodeText(n, k) ==
  << Sp(k) \o <<"-", " ", CASE n = "n1" -> "id=n1" [] n = "n2" -> "id=n2"
                               [] OTHER -> "id=n3">>,
     Sp(k + 2) \o <<"name=N">> >>
  \o (IF n = "n3" THEN <<>> ELSE <<Sp(k + 2) \o <<"type=action">>>>)

EdgeText(e, k) ==
  << Sp(k) \o <<"-", " ", "id=e1">>,
     Sp(k + 2) \o <<CASE e[1] = "n1" -> "from=n1" [] e[1] = "n2" -> "from=n2"
                      [] OTHER -> "from=n9">>,
     Sp(k + 2) \o <<CASE e[2] = "n1" -> "to=n1" [] e[2] = "n2" -> "to=n2"
                      [] OTHER -> "to=n9">> >>

\* The lines of one graph as a sequence item at column k; nodeBlock holds
\* the lines below `nodes:`.
GraphText(gid, nodeBlock, edges, k) ==
  << Sp(k) \o <<"-", " ", IF gid = "g1" THEN "id=g1" ELSE "id=g2">>,
     Sp(k + 2) \o <<"name=G">>,
     Sp(k + 2) \o <<"nodes:">> >>
  \o nodeBlock
  \o (IF edges = <<>> THEN <<>>
      ELSE <<Sp(k + 2) \o <<"edges:">>>>
           \o Concat([j \in 1..Len(edges) |-> EdgeText(edges[j], k + 4)]))

NodeBlock(nodes, k) == Concat([j \in 1..Len(nodes) |-> NodeText(nodes[j], k)])

\* A sequence item written for inclusion: its first line as it is, its
\* other lines two columns to the left (the expander adds them back).
AsFragment(lines) ==
  [j \in 1..Len(lines) |-> IF j = 1 THEN lines[j] ELSE SubSeq(lines[j], 3, Len(lines[j]))]

Directive(k, name) == Sp(k) \o <<"-", " ", "!", "inc", " ", name>>

Header == << <<"id=w">>, <<"name=W">>, <<"graphs:">> >>

NodeLists == UNION {[1..n -> NodeKinds] : n \in 0..MaxNodes}
EdgeLists == {<<>>, <<<<"n1", "n2">>>>, <<<<"n1", "n9">>>>}
Layouts ==
  {"inline", "fragment", "blank", "plain", "nested", "missing", "missing2"}

\* The files of a workflow whose first graph has nodes g1n and edges g1e and
\* whose second graph (if two = TRUE) has nodes g2n.  The first graph is
\* written in the root document ("inline"), in file b ("fragment"; after a
\* blank line for "blank"; as a mapping of its own, without the "- ", for
\* "plain"; an unreadable b for "missing"), or in b with its first node in
\* file c ("nested"; an unreadable c for "missing2").
WorkflowFiles(g1n, g1e, two, g2n, layout) ==
  LET nested == layout \in {"nested", "missing2"} /\ Len(g1n) > 0
      block1 == IF nested
                  THEN <<Directive(4, "c")>> \o NodeBlock(Tail(g1n), 4)
                  ELSE NodeBlock(g1n, 4)
      first == IF layout = "inline"
                 THEN GraphText("g1", NodeBlock(g1n, 6), g1e, 2)
                 ELSE (IF layout = "blank" THEN <<<<>>>> ELSE <<>>)
                      \o <<Directive(2, "b")>>
      second == IF two THEN GraphText("g2", NodeBlock(g2n, 6), <<>>, 2) ELSE <<>>
      root == RootPath :> TextOf(Header \o first \o second)
      item == GraphText("g1", block1, g1e, 0)
      b == FileB :> TextOf(IF layout = "plain"
                               THEN [j \in 1..Len(item) |->
                                       SubSeq(item[j], 3, Len(item[j]))]
                               ELSE AsFragment(item))
      c == FileC :> TextOf(AsFragment(NodeText(g1n[1], 0)))
  IN CASE layout = "inline" -> root
       [] layout = "missing" -> root
       [] layout = "nested" /\ nested -> root @@ b @@ c
       [] OTHER -> root @@ b

WorkflowShapes ==
  { s \in NodeLists \X EdgeLists \X BOOLEAN \X NodeLists \X Layouts :
      /\ Len(s[1]) + Len(s[4]) <= MaxNodes
      /\ ~s[3] => s[4] = <<>> }

WorkflowFileSystems ==
  { WorkflowFiles(s[1], s[2], s[3], s[4], s[5]) : s \in WorkflowShapes }

\* Free-form texts: up to MaxLines lines, with or without a final line feed.
TextLineKinds ==
  { <<>>, <<"x">>, Directive(0, "b"), Directive(1, "c"),
    <<"-", " ", "!", "inc">>, <<" ", "b", " ">> }

RootTexts ==
  UNION { { JoinLines(ls), TextOf(ls) } :
            ls \in UNION {[1..n -> TextLineKinds] : n \in 0..MaxLines} }

FragmentsB ==
  { <<"y", "\n", " ", "\n", "x", "\n">>,
    <<"-", "!", " ", "inc", " ", " ", "c", "\n", "y">>,
    <<"-", " ", "!", "inc", " ", "b">> }

FragmentsC == { <<"x", "\n", "\n", "y">> }

NoFiles == [p \in {} |-> <<>>]

TextFileSystems ==
  { (RootPath :> t) @@ fb @@ fc :
      t \in RootTexts,
      fb \in {NoFiles} \cup { FileB :> f : f \in FragmentsB },
      fc \in {NoFiles} \cup { FileC :> f : f \in FragmentsC } }

\* A root document that includes s/b (and, if direct = TRUE, c), with s/b
\* including c in turn; files called c may exist next to s/b, next to the
\* root document and in the working directory, each with a text of its own.
DirectoryFileSystems ==
  { (RootPath :> TextOf(<<(<<"-", " ", "!", "inc", " ", "s", "/", "b">>)>>
                        \o (IF direct THEN <<Directive(0, "c")>> ELSE <<>>)))
    @@ (FileSB :> <<"-", " ", "!", "inc", " ", "c", "\n", "y">>)
    @@ fsc @@ fc @@ fcwd :
      direct \in BOOLEAN,
      fsc \in {NoFiles, FileSC :> <<"x">>},
      fc \in {NoFiles, FileC :> <<"y">>},
      fcwd \in {NoFiles, FileCwdC :> <<"x", "\n", "y">>} }

\* One node of a document: type `action` without an action ("bare") or
\* with one ("action"), type `subGraph` with a subGraphId, another type
\* ("other"), or no type at all ("untyped").
DocNodeKinds == {"bare", "action", "subGraph", "other", "untyped"}

DocNodeText(node, uuids, k) ==
  << Sp(k) \o <<"-", " ", IF uuids THEN "id=U3" ELSE "id=n1">>,
     Sp(k + 2) \o <<"name=N">> >>
  \o (CASE node \in {"bare", "action"} -> <<Sp(k + 2) \o <<"type=action">>>>
        [] node = "subGraph" -> <<Sp(k + 2) \o <<"type=subGraph">>>>
        [] node = "other" -> <<Sp(k + 2) \o <<"type=other">>>>
        [] OTHER -> <<>>)
  \o (CASE node = "action" -> <<Sp(k + 2) \o <<"action=A">>>>
        [] node = "subGraph" ->
             <<Sp(k + 2) \o <<IF uuids THEN "subGraphId=U2" ELSE "subGraphId=g2">>>>
        [] OTHER -> <<>>)

\* A document with the top-level keys `keys` of id, name and graphs, UUIDs
\* or other strings as identifiers, without entryGraphId, with the id of
\* its own graph or with the id of no graph as entryGraphId, with or without
\* a key outside the schema, and one graph of one node.
DocumentText(keys, uuids, entry, extra, node) ==
  TextOf(
    (IF "id" \in keys THEN <<(<<IF uuids THEN "id=U1" ELSE "id=w">>)>> ELSE <<>>)
    \o (IF "name" \in keys THEN <<(<<"name=W">>)>> ELSE <<>>)
    \o (IF extra THEN <<(<<"version=1">>)>> ELSE <<>>)
    \o (CASE entry = "own" ->
               <<(<<IF uuids THEN "entryGraphId=U2" ELSE "entryGraphId=g1">>)>>
          [] entry = "other" -> <<(<<"entryGraphId=g9">>)>>
          [] OTHER -> <<>>)
    \o (IF "graphs" \in keys
          THEN << <<"graphs:">>,
                  <<" ", " ", "-", " ", IF uuids THEN "id=U2" ELSE "id=g1">>,
                  Sp(4) \o <<"name=G">>,
                  Sp(4) \o <<"nodes:">> >>
               \o DocNodeText(node, uuids, 6)
          ELSE <<>>))

DocumentFileSystems ==
  { RootPath :> DocumentText(keys, uuids, entry, extra, node) :
      keys \in SUBSET {"id", "name", "graphs"},
      uuids \in BOOLEAN, entry \in {"none", "own", "other"},
      extra \in BOOLEAN,
      node \in DocNodeKinds }

\* Chains of includes: the root document includes b or itself, b includes
\* c, and c includes the root document, b, itself or nothing.
CycleFileSystems ==
  { (RootPath :> Directive(0, first)) @@ (FileB :> Directive(0, "c")) @@ fc :
      first \in {"a", "b"},
      fc \in {NoFiles} \cup { FileC :> t :
                 t \in { Directive(0, "a"), Directive(0, "b"),
                         Directive(0, "c"), <<"x">> } } }

FileSystems ==
  WorkflowFileSystems \cup TextFileSystems \cup DirectoryFileSystems
    \cup DocumentFileSystems \cup CycleFileSystems \cup {NoFiles}

\* Documents with no `with` map, an empty one, or one that declares the
\* parameters threshold and limit.
ParameterFileSystems ==
  { RootPath :> TextOf(<< <<"id=w">>, <<"name=W">> >>
                       \o with
                       \o << <<"graphs:">>, <<" ", " ", "-", " ", "id=g1">>,
                              Sp(4) \o <<"name=G">>, Sp(4) \o <<"nodes:">> >>
                       \o DocNodeText("action", FALSE, 6)) :
      with \in { <<>>, <<(<<"with:">>)>>,
                 << <<"with:">>, <<" ", " ", "threshold=1">>,
                    <<" ", " ", "limit=2">> >> } }

\* The variable name of the parameter `key`, and the environments: the
\* parameter threshold, a parameter no document declares, and a variable
\* without the prefix.
Prefixed(key) == <<"PREFIX", key>>

Environments ==
  SUBSET { [name |-> Prefixed("threshold"), value |-> "5"],
           [name |-> Prefixed("unknownKey"), value |-> "5"],
           [name |-> <<"limit">>, value |-> "7"] }

\* No call of Uri::parse_str is under way.
UriIdle ==
  /\ uri_str = <<>> /\ home_dir = <<>> /\ current_dir = <<>>
  /\ uri_pc = "idle" /\ protocol = "" /\ path = <<>>
  /\ uri_result = [kind |-> "none"]
  /\ dir_on_disk = FALSE /\ path_buf = <<>>

\* petgraph::Graph::new() and a workflow without nodes.
EmptyPetGraph == [nodes |-> <<>>, edges |-> <<>>]

NoWorkflow == [id |-> "", name |-> "", graph |-> EmptyPetGraph]

NoPositions == [i \in {} |-> "circle"]

\* Neither editor component is mounted.
EditorIdle ==
  /\ view = "none" /\ graph_signal = EmptyPetGraph /\ workflow = NoWorkflow
  /\ node_positions = NoPositions /\ dragging_node = <<>>
  /\ editing_mode = "Normal" /\ selected_nodes = <<>>
  /\ current_selection = [kind |-> "None"] /\ active_tab = "Node"
  /\ panicked = FALSE

Init ==
  /\ \/ fs \in FileSystems /\ env = {}
     \/ fs \in ParameterFileSystems /\ env \in Environments
  /\ pc = "start"
  /\ yaml_content = <<>>
  /\ workflow_def = NoDefinition
  /\ graphs_iter = 0
  /\ graph = EmptyGraph
  /\ result = [kind |-> "none"]
  /\ UriIdle
  /\ EditorIdle

Next == ResolveIncludes \/ Deserialize \/ BuildGraph \/ ReturnWorkflow

Spec == Init /\ [][Next]_vars

(***************************************************************************)
(* Uri::parse_str (uri.rs lines 83-125) on Unix paths                      *)
(***************************************************************************)

PROTOCOL_SEPARATOR == <<":", "/", "/">>

\* str::split_once(PROTOCOL_SEPARATOR): the text before and after the first
\* occurrence of the separator.
split_once(str) ==
  LET found == {q \in 1..(Len(str) - 2) : SubSeq(str, q, q + 2) = PROTOCOL_SEPARATOR}
  IN IF found = {} THEN [some |-> FALSE]
     ELSE LET q == Min(found)
          IN [some |-> TRUE, before |-> SubSeq(str, 1, q - 1),
              after |-> SubSeq(str, q + 3, Len(str))]

\* Protocol::from_str for an unknown name giving the file protocol.
ProtocolFromStrOrFile(name) ==
  IF name = <<"ram">> THEN [ok |-> TRUE, protocol |-> "ram"]
  ELSE [ok |-> TRUE, protocol |-> "file"]

\* Protocol::from_str (lines 191-201)
ProtocolFromStr(name) ==
  IF name = <<"file">> THEN [ok |-> TRUE, protocol |-> "file"]
  ELSE IF name = <<"ram">> THEN [ok |-> TRUE, protocol |-> "ram"]
  ELSE [ok |-> FALSE]

\* Path::is_relative: the path has no root.
is_relative(p) == p = <<>> \/ p[1] # "/"

\* Path::join on the texts of the paths: a path with a root replaces the
\* base, another one follows it behind one separator.
join(base, p) ==
  IF ~is_relative(p) THEN p
  ELSE IF base = <<>> \/ base[Len(base)] = "/" THEN base \o p
  ELSE base \o <<"/">> \o p

\* Path::components: the root, then the pieces between separators; an empty
\* piece and a "." are left out, but for a "." that starts a path without a
\* root.
components(p) ==
  LET pieces == Components(p)
      kind(j) == IF pieces[j] = <<".">> THEN "CurDir"
                 ELSE IF pieces[j] = <<".", ".">> THEN "ParentDir"
                 ELSE "Normal"
      kept == {j \in 1..Len(pieces) :
                 kind(j) # "CurDir" \/ (j = 1 /\ is_relative(p) /\ p[1] = ".")}
      F[j \in 0..Len(pieces)] ==
        IF j = 0 THEN <<>>
        ELSE IF j \in kept THEN Append(F[j - 1], [kind |-> kind(j), name |-> pieces[j]])
        ELSE F[j - 1]
  IN (IF is_relative(p) THEN <<>> ELSE <<[kind |-> "RootDir", name |-> <<"/">>]>>)
     \o F[Len(pieces)]

\* PathBuf as a text: the root if there is one, the names between separators.
PathBufText(buf) ==
  (IF buf.root THEN <<"/">> ELSE <<>>)
  \o (IF buf.names = <<>> THEN <<>>
      ELSE buf.names[1]
           \o Concat([j \in 1..(Len(buf.names) - 1) |-> <<"/">> \o buf.names[j + 1]]))

\* normalize_path (lines 133-159); a Unix path has no prefix component.
normalize_path(p) ==
  LET cs == components(p)
      F[j \in 0..Len(cs)] ==
        IF j = 0 THEN [root |-> FALSE, names |-> <<>>]
        ELSE CASE cs[j].kind = "RootDir" -> [root |-> TRUE, names |-> <<>>]
               [] cs[j].kind = "CurDir" -> F[j - 1]
               [] cs[j].kind = "ParentDir" ->
                    [F[j - 1] EXCEPT !.names =
                       IF @ = <<>> THEN @ ELSE SubSeq(@, 1, Len(@) - 1)]
               [] OTHER -> [F[j - 1] EXCEPT !.names = Append(@, cs[j].name)]
  IN PathBufText(F[Len(cs)])

\* TildeExpansion with a `~` before any text taken for the home directory.
TildeExpansionOfAnyName(p, home) ==
  IF p = <<>> \/ p[1] # "~" THEN [ok |-> TRUE, path |-> p]
  ELSE IF home = <<>> THEN [ok |-> FALSE]
  ELSE [ok |-> TRUE, path |-> home[1] \o Tail(p)]

\* Lines 92-110: a leading `~` becomes the home directory.
TildeExpansion(p, home) ==
  IF p = <<>> \/ p[1] # "~" THEN [ok |-> TRUE, path |-> p]
  ELSE IF Len(p) > 1 /\ p[2] # "/" THEN [ok |-> FALSE]
  ELSE IF home = <<>> THEN [ok |-> FALSE]
  ELSE [ok |-> TRUE, path |-> home[1] \o Tail(p)]

\* AbsolutePath leaving a relative path as it is.
AbsolutePathUnjoined(p, cwd) == [ok |-> TRUE, path |-> p]

\* Lines 111-115: a relative path is joined onto the current directory.
AbsolutePath(p, cwd) ==
  IF ~is_relative(p) THEN [ok |-> TRUE, path |-> p]
  ELSE IF cwd = <<>> THEN [ok |-> FALSE]
  ELSE [ok |-> TRUE, path |-> join(cwd[1], p)]

UriError == [kind |-> "Err", error |-> "Uri"]

\* Lines 84-90: refuse the empty string, then split off the protocol.
ParseProtocol ==
  /\ uri_pc = "start"
  /\ IF uri_str = <<>>
       THEN /\ uri_pc' = "failed" /\ uri_result' = UriError
            /\ UNCHANGED <<protocol, path>>
       ELSE LET parts == split_once(uri_str)
                parsed == IF parts.some THEN ProtocolFromStr(parts.before)
                          ELSE [ok |-> TRUE, protocol |-> "file"]
            IN IF ~parsed.ok
                 THEN /\ uri_pc' = "failed" /\ uri_result' = UriError
                      /\ UNCHANGED <<protocol, path>>
                 ELSE /\ protocol' = parsed.protocol
                      /\ path' = IF parts.some THEN parts.after ELSE uri_str
                      /\ uri_pc' = IF parsed.protocol = "file" THEN "tilde" ELSE "build"
                      /\ UNCHANGED uri_result
  /\ UNCHANGED <<uri_str, home_dir, current_dir>>
  /\ UNCHANGED <<dir_on_disk, path_buf>>
  /\ UNCHANGED <<loaderVars, editorVars>>

\* Lines 92-110
ExpandTilde ==
  /\ uri_pc = "tilde"
  /\ LET r == TildeExpansion(path, home_dir)
     IN IF r.ok
          THEN /\ path' = r.path /\ uri_pc' = "absolute" /\ UNCHANGED uri_result
          ELSE /\ uri_pc' = "failed" /\ uri_result' = UriError /\ UNCHANGED path
  /\ UNCHANGED <<uri_str, home_dir, current_dir, protocol>>
  /\ UNCHANGED <<dir_on_disk, path_buf>>
  /\ UNCHANGED <<loaderVars, editorVars>>

\* Lines 111-115
MakeAbsolute ==
  /\ uri_pc = "absolute"
  /\ LET r == AbsolutePath(path, current_dir)
     IN IF r.ok
          THEN /\ path' = r.path /\ uri_pc' = "normalize" /\ UNCHANGED uri_result
          ELSE /\ uri_pc' = "failed" /\ uri_result' = UriError /\ UNCHANGED path
  /\ UNCHANGED <<uri_str, home_dir, current_dir, protocol>>
  /\ UNCHANGED <<dir_on_disk, path_buf>>
  /\ UNCHANGED <<loaderVars, editorVars>>

\* Lines 116-118
NormalizePath ==
  /\ uri_pc = "normalize"
  /\ path' = normalize_path(path)
  /\ uri_pc' = "build"
  /\ UNCHANGED <<uri_str, home_dir, current_dir, protocol, uri_result>>
  /\ UNCHANGED <<dir_on_disk, path_buf>>
  /\ UNCHANGED <<loaderVars, editorVars>>

\* Lines 121-124: Ok(Self { uri: "{protocol}://{path}", protocol })
BuildUri ==
  /\ uri_pc = "build"
  /\ uri_result' = [kind |-> "Ok",
                    uri |-> [uri |-> <<protocol>> \o PROTOCOL_SEPARATOR \o path,
                             protocol |-> protocol]]
  /\ uri_pc' = "done"
  /\ UNCHANGED <<uri_str, home_dir, current_dir, protocol, path>>
  /\ UNCHANGED <<dir_on_disk, path_buf>>
  /\ UNCHANGED <<loaderVars, editorVars>>

\* Uri::_path (line 46): the text of the uri behind protocol and separator.
UriPath(uri) == SubSeq(uri.uri, 1 + Len(PROTOCOL_SEPARATOR) + 1, Len(uri.uri))

\* Path::file_name: the last component if it is a normal one.
file_name(p) ==
  LET cs == components(p)
  IN IF cs # <<>> /\ cs[Len(cs)].kind = "Normal" THEN <<cs[Len(cs)].name>> ELSE <<>>

\* Path::extension: what follows the last "." of the file name, unless the
\* name has no "." or only starts with its last one.
extension(p) ==
  LET name == file_name(p)
      dots == IF name = <<>> THEN {}
              ELSE {j \in 1..Len(name[1]) : name[1][j] = "."}
  IN IF dots = {} \/ Max(dots) = 1 THEN <<>>
     ELSE <<SubSeq(name[1], Max(dots) + 1, Len(name[1]))>>

\* is_dir taking a location for a directory when its text ends with a
\* separator.
is_dir_by_trailing_separator(uri, on_disk) ==
  uri.uri[Len(uri.uri)] = "/"

\* Uri::is_dir (lines 71-76): the file system decides for the file
\* protocol, the extension of the uri for the ram protocol.
is_dir(uri, on_disk) ==
  IF uri.protocol = "file" THEN on_disk ELSE extension(uri.uri) = <<>>

\* Uri::path (lines 53-69): splitting the path at the separator and joining
\* the pieces with the separator gives the path back.
AccessPath ==
  /\ uri_pc = "done"
  /\ path_buf' = IF is_dir(uri_result.uri, dir_on_disk)
                   THEN UriPath(uri_result.uri) \o <<"/">>
                   ELSE UriPath(uri_result.uri)
  /\ uri_pc' = "read"
  /\ UNCHANGED <<uri_str, home_dir, current_dir, protocol, path, uri_result,
                 dir_on_disk>>
  /\ UNCHANGED <<loaderVars, editorVars>>

\* The longest path text of an argument.
MaxPathLen == 4

PathChars == {"/", "~", ".", "x"}

UriPrefixes ==
  { <<>>, <<"file", ":", "/", "/">>, <<"ram", ":", "/", "/">>,
    <<"ftp", ":", "/", "/">>, <<"file", "x", ":", "/", "/">>,
    <<":", "/", "/">>, <<"file", ":", "/">>,
    <<"ram", ":", "/", "/", "file", ":", "/", "/">> }

UriStrings ==
  { prefix \o p : prefix \in UriPrefixes,
                   p \in UNION {[1..n -> PathChars] : n \in 0..MaxPathLen} }

\* home::home_dir() and env::current_dir(): nothing, or a directory.
HomeDirs == {<<>>, <<(<<"/", "h">>)>>}
CurrentDirs == {<<>>, <<(<<"/", "w">>)>>}

UriInit ==
  /\ uri_str \in UriStrings
  /\ home_dir \in HomeDirs
  /\ current_dir \in CurrentDirs
  /\ uri_pc = "start" /\ protocol = "" /\ path = <<>>
  /\ uri_result = [kind |-> "none"]
  /\ dir_on_disk \in BOOLEAN /\ path_buf = <<>>
  /\ fs = NoFiles /\ env = {} /\ pc = "idle" /\ yaml_content = <<>>
  /\ workflow_def = NoDefinition /\ graphs_iter = 0 /\ graph = EmptyGraph
  /\ result = [kind |-> "none"]
  /\ EditorIdle

UriNext ==
  ParseProtocol \/ ExpandTilde \/ MakeAbsolute \/ NormalizePath \/ BuildUri
    \/ AccessPath

UriSpec == UriInit /\ [][UriNext]_vars

(***************************************************************************)
(* What the specification document says an include directive is            *)
(* (section 4.2): one line made of leading blanks, "-", optional blanks,   *)
(* "!include", blanks, and a path that is the trimmed rest of the line.    *)
(***************************************************************************)

\* The pieces of a text between its line feeds, an empty last piece kept.
RECURSIVE Pieces(_, _)
Pieces(t, p) ==
  LET e == LineEnd(t, p)
  IN IF e > Len(t) THEN <<SubSeq(t, p, Len(t))>>
     ELSE <<SubSeq(t, p, e - 1)>> \o Pieces(t, e + 1)

DirectivePathStart(line) == SkipWs(line, SkipWs(line, SkipWs(line, 1) + 1) + 1) + 1

IsDirectiveLine(line) ==
  LET dash == SkipWs(line, 1)
      bang == SkipWs(line, dash + 1)
      word == SkipWs(line, bang + 1)
  IN /\ dash <= Len(line) /\ line[dash] = "-"
     /\ bang <= Len(line) /\ line[bang] = "!"
     /\ word <= Len(line) /\ line[word] = "inc"
     /\ word + 1 <= Len(line) /\ line[word + 1] = " "
     /\ Trim(SubSeq(line, word + 1, Len(line))) # <<>>

DirectivePath(line) == Trim(SubSeq(line, DirectivePathStart(line), Len(line)))

HorizontalIndent(line) == SubSeq(line, 1, SkipWs(line, 1) - 1)

NoDirective(text) ==
  LET ps == Pieces(text, 1)
  IN \A j \in 1..Len(ps) : ~IsDirectiveLine(ps[j])

\* The layout section 4.2 prescribes for the lines of an included text.
ClaimedLayout(indent, lines) ==
  JoinLines([j \in 1..Len(lines) |->
               IF j = 1 THEN indent \o lines[j]
               ELSE IF \A i \in 1..Len(lines[j]) : lines[j][i] = " " THEN lines[j]
               ELSE indent \o <<" ", " ">> \o lines[j]])

\* The text of file_path with every directive line replaced by the laid out
\* expansion of the file it names, and nothing else changed.
ClaimedExpansion(files, file_path) ==
  LET ps == Pieces(files[file_path], 1)
  IN JoinLines([j \in 1..Len(ps) |->
       IF IsDirectiveLine(ps[j])
         THEN ClaimedLayout(HorizontalIndent(ps[j]),
                Lines(resolve_includes(files,
                        PathJoin(file_path, DirectivePath(ps[j])),
                        {file_path}).text))
         ELSE ps[j]])

\* The paths the directives of a text name, as the expander reads them.
IncludedPaths(files, file_path) ==
  LET caps == captures_iter(files[file_path])
  IN {PathJoin(file_path, Trim(caps[j].path)) : j \in 1..Len(caps)}

Expanded == yaml_content # <<>>

\* C1: every include directive is replaced by the expansion of its file,
\* the first line behind the horizontal indentation of the directive's own
\* line, each later non-blank line behind that indentation plus two blanks,
\* blank lines as they are, and nothing else is inserted.
C1_DirectiveLayout ==
  Expanded => yaml_content[1] = ClaimedExpansion(fs, RootPath)

\* C9: a document without an include directive is returned unchanged.
C9_NoDirectiveIdentity ==
  (pc # "start" /\ RootPath \in DOMAIN fs /\ NoDirective(fs[RootPath]))
    => yaml_content = <<fs[RootPath]>>

\* C10: with nested includes and every file readable, no line of the text
\* returned for the root document is an include directive any more.
C10_NoDirectiveLeft == Expanded => NoDirective(yaml_content[1])

\* A load whose root document includes b, and b includes c, was expanded.
C10_Witness ==
  /\ Expanded
  /\ DOMAIN fs = {RootPath, FileB, FileC}
  /\ ~NoDirective(fs[RootPath]) /\ ~NoDirective(fs[FileB])
  /\ FileB \in IncludedPaths(fs, RootPath)
  /\ FileC \in IncludedPaths(fs, FileB)

\* The paths the expander tries to read, starting from the root.
RECURSIVE PathsRead(_, _, _)
PathsRead(files, frontier, seen) ==
  IF frontier \subseteq seen THEN seen
  ELSE PathsRead(files,
         UNION {IncludedPaths(files, p) : p \in (frontier \ seen) \cap DOMAIN files},
         seen \cup frontier)

SomeReadFails == \E p \in PathsRead(fs, {RootPath}, {}) : p \notin DOMAIN fs

\* C7: when the root file or a file included at any depth cannot be read,
\* the load ends with an error (or never returns); no expanded text and no
\* graph exist, whatever was expanded before the failing read.
C7_ReadFailureAborts ==
  (pc # "start" /\ SomeReadFails)
    => /\ yaml_content = <<>>
       /\ graph = EmptyGraph
       /\ \/ pc = "failed" /\ result = [kind |-> "Err", error |-> "io"]
          \/ pc = "overflow" /\ result = [kind |-> "none"]

\* A load failed although the root and its fragment b were read: the file c
\* that b includes is unreadable.
C7_Witness ==
  /\ pc = "failed"
  /\ DOMAIN fs = {RootPath, FileB}
  /\ IncludedPaths(fs, RootPath) = {FileB}
  /\ FileC \in IncludedPaths(fs, FileB)

\* C8: a load returns a complete workflow or an error; an error leaves no
\* graph behind, since every error is raised before the first node is
\* inserted, and a workflow is returned only after the last graph.
C8_NoPartialGraph ==
  /\ pc = "failed" => result.kind = "Err" /\ graph = EmptyGraph
  /\ result.kind = "Err" => pc = "failed"
  /\ graph # EmptyGraph => pc \in {"building", "done"}
  /\ result.kind = "Ok" => /\ pc = "done"
                           /\ graphs_iter = Len(workflow_def.graphs) + 1
                           /\ result.workflow.graph = graph

\* A load failed in the deserializer, after the includes were expanded.
C8_Witness ==
  /\ pc = "failed" /\ result = [kind |-> "Err", error |-> "yaml"]
  /\ Expanded /\ FileB \in IncludedPaths(fs, RootPath)

(***************************************************************************)
(* What the deserialized document declares                                 *)
(***************************************************************************)

Items(v, key) ==
  IF v.k = "map" /\ Field(v, key).k = "seq" THEN Field(v, key).items ELSE <<>>

Range(q) == {q[j] : j \in 1..Len(q)}

Built == pc = "done"

WellFormedGraphs ==
  \A j \in 1..Len(workflow_def.graphs) : IsGraphDefinition(workflow_def.graphs[j])

\* The DAG node a node definition of graph gv stands for.
DeclaredNode(gv, nv) ==
  [id |-> Field(nv, "id").s, name |-> Field(nv, "name").s,
   subgraph |-> Field(gv, "id").s]

SelectSeq2(q, Keep(_)) ==
  LET F[i \in 0..Len(q)] ==
        IF i = 0 THEN <<>>
        ELSE IF Keep(q[i]) THEN Append(F[i - 1], q[i]) ELSE F[i - 1]
  IN F[Len(q)]

\* The node definitions of all graphs, in graph order, then node order.
DeclaredNodes ==
  Concat([j \in 1..Len(workflow_def.graphs) |->
            LET gv == workflow_def.graphs[j]
            IN [i \in 1..Len(Items(gv, "nodes")) |->
                  DeclaredNode(gv, Items(gv, "nodes")[i])]])

\* The same, leaving out each node definition that does not fit the schema.
DeclaredNodesThatFit ==
  Concat([j \in 1..Len(workflow_def.graphs) |->
            LET gv == workflow_def.graphs[j]
                fit == SelectSeq2(Items(gv, "nodes"), IsNodeDefinition)
            IN [i \in 1..Len(fit) |-> DeclaredNode(gv, fit[i])]])

\* The same, leaving out each graph that holds such a node definition.
DeclaredNodesOfGraphsThatFit ==
  Concat([j \in 1..Len(workflow_def.graphs) |->
            LET gv == workflow_def.graphs[j]
            IN IF IsGraphDefinition(gv)
                 THEN [i \in 1..Len(Items(gv, "nodes")) |->
                         DeclaredNode(gv, Items(gv, "nodes")[i])]
                 ELSE <<>>])

DeclaredEdges ==
  UNION {Range(Items(workflow_def.graphs[j], "edges")) :
           j \in 1..Len(workflow_def.graphs)}

DeclaredIds == {n.id : n \in Range(DeclaredNodes)}

RECURSIVE NodeCount(_)
NodeCount(j) ==
  IF j = 0 THEN 0
  ELSE Len(Field(workflow_def.graphs[j], "nodes").items) + NodeCount(j - 1)

\* C2: from well-formed graphs the DAG gets one node per node definition,
\* in graph order and then node order, each with the id of its graph as
\* subgraph; the node count is the sum of the graphs' node counts.
C2_OneNodePerDefinition ==
  (Built /\ WellFormedGraphs)
    => /\ result.workflow.graph.nodes = DeclaredNodes
       /\ Len(result.workflow.graph.nodes) = NodeCount(Len(workflow_def.graphs))

\* Two graphs with nodes were built, the first one written in the included
\* files b and c.
C2_Witness ==
  /\ Built /\ WellFormedGraphs
  /\ DOMAIN fs = {RootPath, FileB, FileC}
  /\ Len(workflow_def.graphs) = 2
  /\ \A j \in 1..2 : Len(Items(workflow_def.graphs[j], "nodes")) >= 1
  /\ Len(result.workflow.graph.nodes) = 3

\* C3: node ids are unique in every DAG the loader returns.
C3_UniqueNodeIds ==
  Built => \A i, j \in 1..Len(result.workflow.graph.nodes) :
             i # j => result.workflow.graph.nodes[i].id
                        # result.workflow.graph.nodes[j].id

\* C4: every declared edge whose `from` and `to` name declared nodes is an
\* edge of the returned DAG between the nodes with those ids.
C4_DeclaredEdgesBuilt ==
  (Built /\ WellFormedGraphs)
    => \A e \in DeclaredEdges :
         (Field(e, "from").s \in DeclaredIds /\ Field(e, "to").s \in DeclaredIds)
           => \E d \in Range(result.workflow.graph.edges) :
                /\ result.workflow.graph.nodes[d.source].id = Field(e, "from").s
                /\ result.workflow.graph.nodes[d.target].id = Field(e, "to").s

\* C5: a workflow with an edge that names an undeclared node is never built.
C5_DanglingEdgeFails ==
  (Built /\ WellFormedGraphs)
    => \A e \in DeclaredEdges :
         Field(e, "from").s \in DeclaredIds /\ Field(e, "to").s \in DeclaredIds

\* C6 as stated: a node definition that does not fit the schema is skipped
\* alone; every node definition that fits, of its graph and of the other
\* graphs, is in the DAG.
C6_SkipsNodeOnly ==
  Built => result.workflow.graph.nodes = DeclaredNodesThatFit

\* C6 as amended: a node definition that does not fit the schema makes the
\* build skip the whole graph that holds it; the load still succeeds (no
\* error is raised once the document is deserialized) and every node
\* definition of the graphs that fit is in the DAG.
C6_SkipsWholeGraph ==
  /\ Built => result.workflow.graph.nodes = DeclaredNodesOfGraphsThatFit
  /\ pc = "failed" => workflow_def = NoDefinition

\* A workflow was built from a graph with a node definition that does not
\* fit (next to one that does) and a second graph whose nodes all fit.
C6_Witness ==
  /\ Built /\ Len(workflow_def.graphs) = 2
  /\ ~IsGraphDefinition(workflow_def.graphs[1])
  /\ \E nv \in Range(Items(workflow_def.graphs[1], "nodes")) : IsNodeDefinition(nv)
  /\ IsGraphDefinition(workflow_def.graphs[2])
  /\ Len(result.workflow.graph.nodes) >= 1

(***************************************************************************)
(* Several directives in one document                                      *)
(***************************************************************************)

\* The matches of the root document in the order of the text, each with the
\* replacement made for its own directive.
RootSpans ==
  LET caps == captures_iter(fs[RootPath])
  IN [j \in 1..Len(caps) |->
        [start |-> caps[j].start, end |-> caps[j].end,
         text |-> FormatIncluded(caps[j].indent,
                    resolve_includes(fs, PathJoin(RootPath, Trim(caps[j].path)),
                                     {RootPath}).text)]]

\* The text from position p on with the spans j, j + 1, .. replaced at once:
\* what lies between the spans is copied, each span gives its replacement.
RECURSIVE ReplaceAtOnce(_, _, _, _)
ReplaceAtOnce(text, spans, j, p) ==
  IF j > Len(spans) THEN SubSeq(text, p, Len(text))
  ELSE SubSeq(text, p, spans[j].start - 1) \o spans[j].text
         \o ReplaceAtOnce(text, spans, j + 1, spans[j].end)

\* C11: the matches are located on the original text and spliced from the
\* highest start offset to the lowest, so the expanded text is the original
\* with all matched spans replaced at once: the characters outside the spans
\* are kept in order, each span holds the replacement of its own directive.
C11_SimultaneousReplacement ==
  Expanded => yaml_content[1] = ReplaceAtOnce(fs[RootPath], RootSpans, 1, 1)

\* A root document with two directives or more was expanded, and a
\* replacement differs in length from the span it replaces.
C11_Witness ==
  /\ Expanded
  /\ Len(RootSpans) >= 2
  /\ Len(RootSpans[1].text) # RootSpans[1].end - RootSpans[1].start
  /\ SubSeq(fs[RootPath], RootSpans[Len(RootSpans)].end, Len(fs[RootPath])) # <<>>

(***************************************************************************)
(* The directory an include path is relative to                            *)
(***************************************************************************)

ContainingDirectory(file) == SubSeq(file, 1, Len(file) - 1)

\* The expansion of `file` with the path of every directive read from the
\* directory of the file that holds the directive (a file that does not
\* exist counts as empty).
RECURSIVE ExpansionRelativeToFile(_, _)
ExpansionRelativeToFile(files, file) ==
  IF file \notin DOMAIN files THEN <<>>
  ELSE LET caps == captures_iter(files[file])
       IN ReplaceAtOnce(files[file],
            [j \in 1..Len(caps) |->
               [start |-> caps[j].start, end |-> caps[j].end,
                text |-> FormatIncluded(caps[j].indent,
                           ExpansionRelativeToFile(files,
                             ContainingDirectory(file)
                               \o Components(Trim(caps[j].path))))]],
            1, 1)

\* C12: the path of a directive names a file in the directory of the file
\* that holds the directive, not in the directory of the root document nor
\* in the working directory; the directives of the included file name files
\* in that file's own directory.
C12_RelativeToContainingFile ==
  Expanded => yaml_content[1] = ExpansionRelativeToFile(fs, RootPath)

\* The root document d/a includes s/b and s/b includes c, with a file c in
\* d/s, another in d and another in the working directory.
C12_Witness ==
  /\ Expanded
  /\ {FileSB, FileSC, FileC, FileCwdC} \subseteq DOMAIN fs
  /\ FileSB \in IncludedPaths(fs, RootPath)
  /\ FileSC \in IncludedPaths(fs, FileSB)
  /\ fs[FileSC] # fs[FileC] /\ fs[FileSC] # fs[FileCwdC]

(***************************************************************************)
(* The top level of the expanded document                                  *)
(***************************************************************************)

\* The expanded document as the YAML parser reads it.
TopLevel == ParseYaml(yaml_content[1])

IsDocument == Expanded /\ LET t == TopLevel IN t.ok /\ t.val.k = "map"

RequiredKeys == {"id", "name", "graphs"}
SchemaKeys == RequiredKeys \cup {"entryGraphId", "with"}

KeysOf(v) == {v.ents[j].key : j \in 1..Len(v.ents)}

\* The deserializer has run on the expanded document.
Deserialized == Expanded /\ pc # "resolved"

\* C13: a document that lacks one of the keys id, name and graphs is refused
\* with an error and yields no workflow; a document whose keys id and name
\* are strings and whose key graphs is a list is not refused, whatever other
\* keys outside the schema it has.
C13_RequiredTopLevelKeys ==
  Deserialized
    => LET t == TopLevel
       IN (t.ok /\ t.val.k = "map")
            => /\ (RequiredKeys \ KeysOf(t.val) # {})
                    => /\ pc = "failed"
                       /\ result = [kind |-> "Err", error |-> "yaml"]
                       /\ workflow_def = NoDefinition /\ graph = EmptyGraph
               /\ (/\ HasString(t.val, "id") /\ HasString(t.val, "name")
                   /\ Field(t.val, "graphs").k = "seq"
                   /\ KeysOf(t.val) \ SchemaKeys # {})
                    => /\ pc \in {"building", "done"}
                       /\ workflow_def.graphs = Field(t.val, "graphs").items

\* A document with a key outside the schema and without `graphs` was refused.
C13_Witness ==
  /\ Deserialized /\ IsDocument
  /\ pc = "failed"
  /\ KeysOf(TopLevel.val) = {"id", "name", "version"}

\* The strings that are well-formed UUIDs.
Uuids ==
  { "00000000-0000-4000-8000-000000000001",
    "00000000-0000-4000-8000-000000000002",
    "00000000-0000-4000-8000-000000000003" }

IsUuid(str) == str \in Uuids

\* The identifiers of the document: workflow id, entryGraphId, graph ids
\* and node ids, where they are strings.
Identifiers ==
  LET ofMap(v) == IF v.k = "map" /\ HasString(v, "id") THEN {Field(v, "id").s} ELSE {}
      top == TopLevel.val
      graphs == Items(top, "graphs")
  IN ofMap(top)
     \cup (IF HasString(top, "entryGraphId")
            THEN {Field(top, "entryGraphId").s} ELSE {})
     \cup UNION {ofMap(graphs[j]) : j \in 1..Len(graphs)}
     \cup UNION {UNION {ofMap(Items(graphs[j], "nodes")[i]) :
                          i \in 1..Len(Items(graphs[j], "nodes"))} :
                   j \in 1..Len(graphs)}

\* C14: a document is loaded only if each of its identifiers is a UUID.
C14_IdentifiersAreUuids ==
  (pc \in {"building", "done"} /\ IsDocument)
    => \A str \in Identifiers : IsUuid(str)

\* The node definitions of the graphs the build accepts.
AcceptedNodeDefinitions ==
  UNION {Range(Items(workflow_def.graphs[j], "nodes")) :
           j \in {i \in 1..Len(workflow_def.graphs) :
                    IsGraphDefinition(workflow_def.graphs[i])}}

IsDiscriminatedUnion(nv) ==
  /\ HasString(nv, "type") /\ Field(nv, "type").s \in {"action", "subGraph"}
  /\ HasKey(nv.ents, "action") <=> Field(nv, "type").s = "action"
  /\ HasKey(nv.ents, "subGraphId") <=> Field(nv, "type").s = "subGraph"

\* C15: every node definition the loader accepts has the tag `action` and an
\* action and no subGraphId, or the tag `subGraph` and a subGraphId and no
\* action.
C15_NodeIsDiscriminatedUnion ==
  Built => \A nv \in AcceptedNodeDefinitions : IsDiscriminatedUnion(nv)

\* C16: the workflow a load returns has the id and the name of the
\* document's top level and its entryGraphId, or no entry graph when the
\* document has no such key, whatever its graphs and nodes are.
C16_MetadataFromDocument ==
  Built
    => LET t == TopLevel
       IN /\ t.ok /\ t.val.k = "map"
          /\ result.workflow.id = Field(t.val, "id").s
          /\ result.workflow.name = Field(t.val, "name").s
          /\ result.workflow.entry_graph_id =
               IF HasKey(t.val.ents, "entryGraphId")
                 THEN <<Field(t.val, "entryGraphId").s>> ELSE <<>>

\* A workflow with an entry graph was returned from a document whose only
\* graph was skipped by the build.
C16_Witness ==
  /\ Built /\ IsDocument
  /\ HasKey(TopLevel.val.ents, "entryGraphId")
  /\ ~WellFormedGraphs
  /\ result.workflow.entry_graph_id # <<>>
  /\ result.workflow.graph = EmptyGraph

(***************************************************************************)
(* The locations Uri::parse_str resolves                                   *)
(***************************************************************************)

SeparatorAt(str, q) ==
  q + 2 <= Len(str) /\ str[q] = ":" /\ str[q + 1] = "/" /\ str[q + 2] = "/"

HasSeparator(str) == \E q \in 1..Len(str) : SeparatorAt(str, q)

FirstSeparator(str) == Min({q \in 1..Len(str) : SeparatorAt(str, q)})

\* The text before the first "://" and the text behind it.
ProtocolText(str) == SubSeq(str, 1, FirstSeparator(str) - 1)
InputPath(str) ==
  IF HasSeparator(str) THEN SubSeq(str, FirstSeparator(str) + 3, Len(str)) ELSE str

Resolved == uri_result.kind = "Ok"
Refused == uri_pc = "failed" /\ uri_result = UriError
Returned == uri_pc \in {"done", "failed"}

HasDotComponent(p) ==
  \E j \in 1..Len(Components(p)) : Components(p)[j] \in {<<".">>, <<".", ".">>}

\* C17: the path of a resolved location, of the file protocol or of the ram
\* protocol, has no `.` and no `..` component.
C17_NoDotComponents == Resolved => ~HasDotComponent(UriPath(uri_result.uri))

\* C18: the empty string is refused, and so is every argument whose text
\* before the first "://" is neither `file` nor `ram`; with `file` or `ram`
\* there, a resolved location has that protocol.
C18_ProtocolSelection ==
  uri_pc \notin {"idle", "start"}
    => /\ uri_str = <<>> => Refused
       /\ (HasSeparator(uri_str)
             /\ ProtocolText(uri_str) \notin {<<"file">>, <<"ram">>}) => Refused
       /\ (HasSeparator(uri_str)
             /\ ProtocolText(uri_str) \in {<<"file">>, <<"ram">>} /\ Resolved)
            => /\ uri_result.uri.protocol = ProtocolText(uri_str)[1]
               /\ SubSeq(uri_result.uri.uri, 1, 4)
                    = ProtocolText(uri_str) \o PROTOCOL_SEPARATOR

\* An argument whose protocol text starts with `file` but is longer was
\* refused.
C18_Witness ==
  /\ Refused
  /\ HasSeparator(uri_str)
  /\ ProtocolText(uri_str) = <<"file", "x">>

IsFileInput(str) == ~HasSeparator(str) \/ ProtocolText(str) = <<"file">>

\* C19: for the file protocol and a known home directory, a path that is
\* `~` or starts with `~/` resolves to the home directory followed by what
\* stands behind the `~`; a path that starts with `~` and another character
\* is refused and no location is returned.
C19_TildeExpansion ==
  (uri_pc # "idle" /\ IsFileInput(uri_str)
     /\ InputPath(uri_str) # <<>> /\ InputPath(uri_str)[1] = "~")
    => IF Len(InputPath(uri_str)) > 1 /\ InputPath(uri_str)[2] # "/"
         THEN /\ ~Resolved
              /\ uri_pc \notin {"start", "tilde"} => Refused
         ELSE (home_dir # <<>> /\ Returned)
                => /\ Resolved
                   /\ UriPath(uri_result.uri)
                        = normalize_path(home_dir[1] \o Tail(InputPath(uri_str)))

\* The argument `~/x` was resolved to the file x of the home directory.
C19_Witness ==
  /\ Resolved
  /\ uri_str = <<"~", "/", "x">>
  /\ uri_result.uri.uri = <<"file", ":", "/", "/", "/", "h", "/", "x">>

\* C20: an argument without "://" that resolves gives a location of the file
\* protocol with an absolute path: the normalized argument if it is
\* absolute, the normalized argument joined onto the current directory if
\* it is relative.
C20_DefaultsToAbsoluteFile ==
  (Resolved /\ ~HasSeparator(uri_str))
    => /\ uri_str # <<>>
       /\ uri_result.uri.protocol = "file"
       /\ UriPath(uri_result.uri) # <<>> /\ UriPath(uri_result.uri)[1] = "/"
       /\ uri_str[1] = "/" => UriPath(uri_result.uri) = normalize_path(uri_str)
       /\ uri_str[1] \notin {"/", "~"}
            => /\ current_dir # <<>>
               /\ UriPath(uri_result.uri)
                    = normalize_path(current_dir[1] \o <<"/">> \o uri_str)

\* The relative argument `./x` was resolved in the current directory.
C20_Witness ==
  /\ Resolved
  /\ uri_str = <<".", "/", "x">>
  /\ uri_result.uri = [uri |-> <<"file", ":", "/", "/", "/", "w", "/", "x">>,
                        protocol |-> "file"]

\* What follows the last "." of the last piece of a path text, if that "."
\* is not the first character of the piece.
LastPieceHasExtension(p) ==
  LET pieces == SelectSeq(Components(p), LAMBDA c : c # <<".">>)
  IN /\ pieces # <<>>
     /\ pieces[Len(pieces)] # <<".", ".">>
     /\ \E j \in 2..Len(pieces[Len(pieces)]) : pieces[Len(pieces)][j] = "."

\* C21: the accessor returns the stored path followed by one separator when
\* the location is a directory and the stored path itself otherwise; a
\* location of the ram protocol is a directory exactly when the last
\* component of its path has no extension, one of the file protocol when
\* the file system says so.
C21_PathAccessor ==
  uri_pc = "read"
    => LET stored == UriPath(uri_result.uri)
           dir == IF uri_result.uri.protocol = "ram"
                    THEN ~LastPieceHasExtension(stored) ELSE dir_on_disk
       IN /\ dir => path_buf = stored \o <<"/">>
          /\ ~dir => path_buf = stored

\* The path of the ram location `x/.x`, whose last component starts with
\* its only ".", was read as a directory.
C21_Witness ==
  /\ uri_pc = "read"
  /\ uri_result.uri.uri = <<"ram", ":", "/", "/", "x", "/", ".", "x">>
  /\ path_buf = <<"x", "/", ".", "x", "/">>

(***************************************************************************)
(* The parameters of the workflow and the environment                      *)
(***************************************************************************)

\* The `with` map the document declares (no key if it declares none).
DeclaredParameters ==
  LET with == Field(TopLevel.val, "with")
  IN IF with.k = "map" THEN HashMap(with) ELSE <<>>

\* The parameter map the load leaves behind.
LoadedParameters ==
  IF workflow_def.with_params = <<>> THEN <<>> ELSE workflow_def.with_params[1]

\* C22: after a load the parameter map has the keys the document declares
\* and no other; a declared key with a variable PREFIX<key> in the
\* environment has the value of that variable, every other declared key has
\* its declared value.
C22_OverlayOverridesDeclared ==
  Built
    => /\ DOMAIN LoadedParameters = DOMAIN DeclaredParameters
       /\ \A key \in DOMAIN DeclaredParameters :
            IF \E e \in env : e.name = Prefixed(key)
              THEN \E e \in env : /\ e.name = Prefixed(key)
                                  /\ LoadedParameters[key] = Str(e.value)
              ELSE LoadedParameters[key] = DeclaredParameters[key]

(***************************************************************************)
(* Where the pattern of the expander matches                               *)
(***************************************************************************)

\* The text between two positions lies on one line.
OnOneLine(t, start, end) == \A q \in start..(end - 1) : t[q] # "\n"

\* C23: every match of the pattern in a document the expander reads is one
\* directive line: the span runs from the start of a line to its end and
\* holds no line feed, the line is a directive, and the path the expander
\* uses is the trimmed rest of that line.
C23_DirectiveOnOneLine ==
  (pc # "start" /\ RootPath \in DOMAIN fs)
    => LET t == fs[RootPath]
           caps == captures_iter(t)
       IN \A j \in 1..Len(caps) :
            LET line == SubSeq(t, caps[j].start, caps[j].end - 1)
            IN /\ OnOneLine(t, caps[j].start, caps[j].end)
               /\ IsDirectiveLine(line)
               /\ Trim(caps[j].path) = DirectivePath(line)

(***************************************************************************)
(* The include relation of the files                                       *)
(***************************************************************************)

\* The files reachable from the files of `seen` by include directives.
RECURSIVE IncludeClosure(_, _)
IncludeClosure(files, seen) ==
  LET next == seen \cup UNION { IncludedPaths(files, p) :
                                  p \in seen \cap DOMAIN files }
  IN IF next = seen THEN seen ELSE IncludeClosure(files, next)

\* The files the root document includes, directly or through other files.
IncludedFromRoot == IncludeClosure(fs, {RootPath})

\* A file among them includes itself, directly or through other files.
IncludeCycle ==
  \E p \in IncludedFromRoot \cap DOMAIN fs :
    p \in IncludeClosure(fs, IncludedPaths(fs, p))

ExpansionReturned == pc \notin {"start", "overflow"}

\* C24: once started, the expansion of an acyclic include relation returns
\* (a text or an error); with a cycle it returns no text, and when every file
\* of the relation can be read it does not return at all.
C24_TerminatesUnlessCyclic ==
  pc # "start"
    => LET cycle == IncludeCycle
       IN /\ ~cycle => ExpansionReturned
          /\ cycle => ~Expanded
          /\ (cycle /\ IncludedFromRoot \subseteq DOMAIN fs)
               => ~ExpansionReturned

\* The root document includes b, b includes c, and c includes b again: the
\* expansion was started and has not returned.
C24_Witness ==
  /\ pc = "overflow"
  /\ DOMAIN fs = {RootPath, FileB, FileC}
  /\ IncludedPaths(fs, RootPath) = {FileB}
  /\ IncludedPaths(fs, FileB) = {FileC}
  /\ IncludedPaths(fs, FileC) = {FileB}

(***************************************************************************)
(* The entry graph of a document                                           *)
(***************************************************************************)

\* The document names an entry graph, and no element of its `graphs` list is
\* a graph with that id.
DanglingEntry(t) ==
  /\ HasString(t.val, "entryGraphId")
  /\ Field(t.val, "graphs").k = "seq"
  /\ LET graphs == Field(t.val, "graphs").items
     IN \A j \in 1..Len(graphs) :
          ~(/\ graphs[j].k = "map"
            /\ HasString(graphs[j], "id")
            /\ Field(graphs[j], "id").s = Field(t.val, "entryGraphId").s)

\* C25: a document with string id and name and a list of graphs, whose
\* entryGraphId is the id of none of its graphs, is accepted by the
\* deserializer, its load ends with a workflow, and the workflow has that
\* entryGraphId.
C25_EntryGraphNotChecked ==
  Deserialized
    => LET t == TopLevel
       IN (/\ t.ok /\ t.val.k = "map"
           /\ HasString(t.val, "id") /\ HasString(t.val, "name")
           /\ DanglingEntry(t))
            => /\ pc \in {"building", "done"}
               /\ workflow_def.entry_graph_id =
                    <<Field(t.val, "entryGraphId").s>>
               /\ Built => /\ result.kind = "Ok"
                           /\ result.workflow.entry_graph_id =
                                <<Field(t.val, "entryGraphId").s>>

\* A workflow was returned for a document with one graph g1 of one node and
\* the entryGraphId g9.
C25_Witness ==
  /\ Built /\ IsDocument
  /\ DanglingEntry(TopLevel)
  /\ Len(workflow_def.graphs) = 1
  /\ result.kind = "Ok"
  /\ result.workflow.entry_graph_id = <<"g9">>
  /\ result.workflow.graph.nodes # <<>>

(***************************************************************************)
(* petgraph::Graph as the editor components use it.  A node index is the   *)
(* position of the node counted from 0, an edge index likewise.  Every     *)
(* edge keeps its rank in the order of insertion (`age`): the adjacency    *)
(* lists of petgraph hold the edges of a node newest first.                *)
(***************************************************************************)

\* The most nodes and edges the graph of an editor holds.
MaxEditorNodes == 2
MaxEditorEdges == 2

node_count(g) == Len(g.nodes)
node_indices(g) == 0..(Len(g.nodes) - 1)
edge_indices(g) == 0..(Len(g.edges) - 1)

\* Graph::add_node: the new node gets the index node_count.
add_node(g, weight) == [g EXCEPT !.nodes = Append(@, weight)]

\* Graph::add_edge panics when an endpoint is not a node of the graph.
add_edge_panics(g, a, b) == Max({a, b}) >= node_count(g)

add_edge(g, a, b, weight) ==
  [g EXCEPT !.edges = Append(@, [source |-> a, target |-> b,
                                 weight |-> weight, age |-> Len(@) + 1])]

\* Vec::swap_remove at position i (counted from 1).
swap_remove(s, i) ==
  IF i = Len(s) THEN SubSeq(s, 1, Len(s) - 1)
  ELSE [SubSeq(s, 1, Len(s) - 1) EXCEPT ![i] = s[Len(s)]]

\* Graph::remove_edge: the last edge takes the index of the removed one.
remove_edge(g, e) ==
  IF e \notin edge_indices(g) THEN g
  ELSE LET gone == g.edges[e + 1]
           rest == swap_remove(g.edges, e + 1)
       IN [g EXCEPT !.edges =
             [j \in 1..Len(rest) |->
                IF rest[j].age > gone.age
                  THEN [rest[j] EXCEPT !.age = @ - 1] ELSE rest[j]]]

\* The first loop of Graph::remove_node: the outgoing edges of node a are
\* removed newest first, then the incoming ones.
RECURSIVE remove_incident_edges(_, _)
remove_incident_edges(g, a) ==
  LET outgoing == {e \in edge_indices(g) : g.edges[e + 1].source = a}
      incoming == {e \in edge_indices(g) : g.edges[e + 1].target = a}
      list == IF outgoing # {} THEN outgoing ELSE incoming
  IN IF list = {} THEN g
     ELSE LET next == CHOOSE e \in list :
                        \A f \in list : g.edges[f + 1].age <= g.edges[e + 1].age
          IN remove_incident_edges(remove_edge(g, next), a)

\* Graph::remove_node: the edges of the node are removed, then the last
\* node takes the index of the removed one and its edges follow it.
remove_node(g, a) ==
  IF a \notin node_indices(g) THEN g
  ELSE LET h == remove_incident_edges(g, a)
           last == node_count(h) - 1
       IN [nodes |-> swap_remove(h.nodes, a + 1),
           edges |-> [j \in 1..Len(h.edges) |->
                        [h.edges[j] EXCEPT
                           !.source = IF @ = last THEN a ELSE @,
                           !.target = IF @ = last THEN a ELSE @]]]

(***************************************************************************)
(* What both editor components share                                       *)
(***************************************************************************)

\* HashMap::insert and HashMap::remove on node_positions.
insert(map, key, value) ==
  [k \in DOMAIN map \cup {key} |-> IF k = key THEN value ELSE map[k]]

remove(map, key) == [k \in DOMAIN map \ {key} |-> map[k]]

\* Vec::contains on selected_nodes.
contains(nodes, node_idx) == \E j \in 1..Len(nodes) : nodes[j] = node_idx

\* The default circular layout: one point of the circle for every node.
DefaultLayout(g) == [i \in node_indices(g) |-> <<"circle", i>>]

\* event.data().element_coordinates(): where the mouse is.
MousePoints == { <<"mouse">> }

\* The nodes and edges the component draws: a node that has a position, an
\* edge whose two endpoints have one.
RenderedNodes(g) == {i \in node_indices(g) : i \in DOMAIN node_positions}

RenderedEdges(g) ==
  {e \in edge_indices(g) : /\ g.edges[e + 1].source \in DOMAIN node_positions
                           /\ g.edges[e + 1].target \in DOMAIN node_positions}

\* A click reaches a handler: the mouse button was released over the drawing
\* or the mouse left it before (onmouseup, onmouseleave), so no node is
\* being dragged.
Clickable == ~panicked /\ dragging_node = <<>>

NodeIndexes == 0..(MaxEditorNodes - 1)
EdgeIndexes == 0..(MaxEditorEdges - 1)

(***************************************************************************)
(* The Graph component (src/src/components/graph.rs)                       *)
(***************************************************************************)

graph_handle_mousemove ==
  /\ view = "graph" /\ ~panicked
  /\ \E point \in MousePoints :
       node_positions' = IF dragging_node # <<>>
                           THEN insert(node_positions, dragging_node[1], point)
                           ELSE node_positions
  /\ UNCHANGED <<view, graph_signal, workflow, dragging_node, editing_mode,
                 selected_nodes, current_selection, active_tab, panicked>>
  /\ UNCHANGED <<loaderVars, uriVars>>

graph_handle_mouseup ==
  /\ view = "graph" /\ ~panicked
  /\ dragging_node' = <<>>
  /\ UNCHANGED <<view, graph_signal, workflow, node_positions, editing_mode,
                 selected_nodes, current_selection, active_tab, panicked>>
  /\ UNCHANGED <<loaderVars, uriVars>>

graph_handle_drag_start(node_idx) ==
  /\ view = "graph" /\ Clickable
  /\ node_idx \in RenderedNodes(graph_signal)
  /\ dragging_node' = <<node_idx>>
  /\ UNCHANGED <<view, graph_signal, workflow, node_positions, editing_mode,
                 selected_nodes, current_selection, active_tab, panicked>>
  /\ UNCHANGED <<loaderVars, uriVars>>

\* Lines 107-125: the AddEdge arm of handle_node_click.
graph_node_click_add_edge(node_idx) ==
  LET nodes == IF contains(selected_nodes, node_idx) THEN selected_nodes
               ELSE Append(selected_nodes, node_idx)
  IN /\ IF Len(nodes) # 2
          THEN /\ selected_nodes' = nodes
               /\ UNCHANGED <<graph_signal, panicked>>
        ELSE IF add_edge_panics(graph_signal, nodes[1], nodes[2])
          THEN /\ panicked' = TRUE
               /\ selected_nodes' = nodes
               /\ UNCHANGED graph_signal
        ELSE /\ Len(graph_signal.edges) < MaxEditorEdges
             /\ graph_signal' = add_edge(graph_signal, nodes[1], nodes[2], 1)
             /\ selected_nodes' = <<>>
             /\ UNCHANGED panicked
     /\ UNCHANGED <<node_positions, current_selection>>

\* The DeleteNode arm leaving current_selection as it is.
graph_node_click_delete_node_keep_selection(node_idx) ==
  /\ graph_signal' = remove_node(graph_signal, node_idx)
  /\ node_positions' = remove(node_positions, node_idx)
  /\ UNCHANGED <<current_selection, selected_nodes, panicked>>

\* Lines 133-142: the DeleteNode arm of handle_node_click.
graph_node_click_delete_node(node_idx) ==
  /\ graph_signal' = remove_node(graph_signal, node_idx)
  /\ node_positions' = remove(node_positions, node_idx)
  /\ current_selection' = [kind |-> "None"]
  /\ UNCHANGED <<selected_nodes, panicked>>

graph_handle_node_click(node_idx) ==
  /\ view = "graph" /\ Clickable
  /\ node_idx \in RenderedNodes(graph_signal)
  /\ CASE editing_mode = "Normal" ->
            /\ current_selection' = [kind |-> "Node", idx |-> node_idx]
            /\ UNCHANGED <<graph_signal, node_positions, selected_nodes,
                           panicked>>
       [] editing_mode = "AddEdge" -> graph_node_click_add_edge(node_idx)
       [] editing_mode = "DeleteNode" -> graph_node_click_delete_node(node_idx)
       [] OTHER ->
            UNCHANGED <<graph_signal, node_positions, selected_nodes,
                        current_selection, panicked>>
  /\ UNCHANGED <<view, workflow, dragging_node, editing_mode, active_tab>>
  /\ UNCHANGED <<loaderVars, uriVars>>

graph_handle_canvas_click ==
  /\ view = "graph" /\ Clickable
  /\ IF editing_mode = "AddNode"
       THEN /\ node_count(graph_signal) < MaxEditorNodes
            /\ graph_signal' = add_node(graph_signal, "New Node")
            /\ \E point \in MousePoints :
                 node_positions' =
                   insert(node_positions, node_count(graph_signal), point)
       ELSE UNCHANGED <<graph_signal, node_positions>>
  /\ UNCHANGED <<view, workflow, dragging_node, editing_mode, selected_nodes,
                 current_selection, active_tab, panicked>>
  /\ UNCHANGED <<loaderVars, uriVars>>

graph_handle_edge_click(edge_idx) ==
  /\ view = "graph" /\ Clickable
  /\ edge_idx \in RenderedEdges(graph_signal)
  /\ CASE editing_mode = "Normal" ->
            /\ current_selection' = [kind |-> "Edge", idx |-> edge_idx]
            /\ UNCHANGED graph_signal
       [] editing_mode = "DeleteEdge" ->
            /\ graph_signal' = remove_edge(graph_signal, edge_idx)
            /\ current_selection' = [kind |-> "None"]
       [] OTHER -> UNCHANGED <<graph_signal, current_selection>>
  /\ UNCHANGED <<view, workflow, node_positions, dragging_node, editing_mode,
                 selected_nodes, active_tab, panicked>>
  /\ UNCHANGED <<loaderVars, uriVars>>

\* The mode buttons: each is drawn on one tab only (lines 279-372).
graph_set_normal_mode ==
  /\ view = "graph" /\ Clickable
  /\ editing_mode' = "Normal"
  /\ selected_nodes' = <<>>
  /\ UNCHANGED <<view, graph_signal, workflow, node_positions, dragging_node,
                 current_selection, active_tab, panicked>>
  /\ UNCHANGED <<loaderVars, uriVars>>

\* set_add_edge_mode leaving selected_nodes as it is.
graph_set_add_edge_mode_keep_nodes ==
  /\ view = "graph" /\ Clickable
  /\ active_tab = "Edge"
  /\ editing_mode' = "AddEdge"
  /\ UNCHANGED <<view, graph_signal, workflow, node_positions, dragging_node,
                 selected_nodes, current_selection, active_tab, panicked>>
  /\ UNCHANGED <<loaderVars, uriVars>>

graph_set_add_edge_mode ==
  /\ view = "graph" /\ Clickable
  /\ active_tab = "Edge"
  /\ editing_mode' = "AddEdge"
  /\ selected_nodes' = <<>>
  /\ UNCHANGED <<view, graph_signal, workflow, node_positions, dragging_node,
                 current_selection, active_tab, panicked>>
  /\ UNCHANGED <<loaderVars, uriVars>>

graph_set_delete_edge_mode ==
  /\ view = "graph" /\ Clickable
  /\ active_tab = "Edge"
  /\ editing_mode' = "DeleteEdge"
  /\ selected_nodes' = <<>>
  /\ UNCHANGED <<view, graph_signal, workflow, node_positions, dragging_node,
                 current_selection, active_tab, panicked>>
  /\ UNCHANGED <<loaderVars, uriVars>>

graph_set_add_node_mode ==
  /\ view = "graph" /\ Clickable
  /\ active_tab = "Node"
  /\ editing_mode' = "AddNode"
  /\ UNCHANGED <<view, graph_signal, workflow, node_positions, dragging_node,
                 selected_nodes, current_selection, active_tab, panicked>>
  /\ UNCHANGED <<loaderVars, uriVars>>

graph_set_delete_node_mode ==
  /\ view = "graph" /\ Clickable
  /\ active_tab = "Node"
  /\ editing_mode' = "DeleteNode"
  /\ UNCHANGED <<view, graph_signal, workflow, node_positions, dragging_node,
                 selected_nodes, current_selection, active_tab, panicked>>
  /\ UNCHANGED <<loaderVars, uriVars>>

graph_switch_to_node_tab ==
  /\ view = "graph" /\ Clickable
  /\ active_tab' = "Node"
  /\ editing_mode' = "Normal"
  /\ UNCHANGED <<view, graph_signal, workflow, node_positions, dragging_node,
                 selected_nodes, current_selection, panicked>>
  /\ UNCHANGED <<loaderVars, uriVars>>

\* switch_to_edge_tab leaving the editing mode as it is.
graph_switch_to_edge_tab_keep_mode ==
  /\ view = "graph" /\ Clickable
  /\ active_tab' = "Edge"
  /\ UNCHANGED <<view, graph_signal, workflow, node_positions, dragging_node,
                 editing_mode, selected_nodes, current_selection, panicked>>
  /\ UNCHANGED <<loaderVars, uriVars>>

graph_switch_to_edge_tab ==
  /\ view = "graph" /\ Clickable
  /\ active_tab' = "Edge"
  /\ editing_mode' = "Normal"
  /\ UNCHANGED <<view, graph_signal, workflow, node_positions, dragging_node,
                 selected_nodes, current_selection, panicked>>
  /\ UNCHANGED <<loaderVars, uriVars>>

(***************************************************************************)
(* The Flow component (src/src/components/flow.rs)                         *)
(***************************************************************************)

flow_handle_mousemove ==
  /\ view = "flow" /\ ~panicked
  /\ \E point \in MousePoints :
       node_positions' = IF dragging_node # <<>>
                           THEN insert(node_positions, dragging_node[1], point)
                           ELSE node_positions
  /\ UNCHANGED <<view, graph_signal, workflow, dragging_node, editing_mode,
                 selected_nodes, current_selection, active_tab, panicked>>
  /\ UNCHANGED <<loaderVars, uriVars>>

flow_handle_mouseup ==
  /\ view = "flow" /\ ~panicked
  /\ dragging_node' = <<>>
  /\ UNCHANGED <<view, graph_signal, workflow, node_positions, editing_mode,
                 selected_nodes, current_selection, active_tab, panicked>>
  /\ UNCHANGED <<loaderVars, uriVars>>

flow_handle_drag_start(node_idx) ==
  /\ view = "flow" /\ Clickable
  /\ node_idx \in RenderedNodes(workflow.graph)
  /\ dragging_node' = <<node_idx>>
  /\ UNCHANGED <<view, graph_signal, workflow, node_positions, editing_mode,
                 selected_nodes, current_selection, active_tab, panicked>>
  /\ UNCHANGED <<loaderVars, uriVars>>

\* handle_node_click removing the node from the workflow in DeleteNode mode,
\* as the Graph component does.
flow_handle_node_click_removing(node_idx) ==
  /\ view = "flow" /\ Clickable
  /\ node_idx \in RenderedNodes(workflow.graph)
  /\ CASE editing_mode = "Normal" ->
            /\ current_selection' = [kind |-> "Node", idx |-> node_idx]
            /\ UNCHANGED <<selected_nodes, workflow, node_positions>>
       [] editing_mode = "AddEdge" ->
            LET nodes == IF contains(selected_nodes, node_idx)
                           THEN selected_nodes
                           ELSE Append(selected_nodes, node_idx)
            IN /\ selected_nodes' = IF Len(nodes) = 2 THEN <<>> ELSE nodes
               /\ UNCHANGED <<current_selection, workflow, node_positions>>
       [] editing_mode = "DeleteNode" ->
            /\ workflow' = [workflow EXCEPT
                              !.graph = remove_node(@, node_idx)]
            /\ node_positions' = remove(node_positions, node_idx)
            /\ current_selection' = [kind |-> "None"]
            /\ UNCHANGED selected_nodes
       [] OTHER ->
            UNCHANGED <<selected_nodes, current_selection, workflow,
                        node_positions>>
  /\ UNCHANGED <<view, graph_signal, dragging_node, editing_mode, active_tab,
                 panicked>>
  /\ UNCHANGED <<loaderVars, uriVars>>

flow_handle_node_click(node_idx) ==
  /\ view = "flow" /\ Clickable
  /\ node_idx \in RenderedNodes(workflow.graph)
  /\ CASE editing_mode = "Normal" ->
            /\ current_selection' = [kind |-> "Node", idx |-> node_idx]
            /\ UNCHANGED selected_nodes
       [] editing_mode = "AddEdge" ->
            LET nodes == IF contains(selected_nodes, node_idx)
                           THEN selected_nodes
                           ELSE Append(selected_nodes, node_idx)
            IN /\ selected_nodes' = IF Len(nodes) = 2 THEN <<>> ELSE nodes
               /\ UNCHANGED current_selection
       [] editing_mode = "DeleteNode" ->
            /\ current_selection' = [kind |-> "None"]
            /\ UNCHANGED selected_nodes
       [] OTHER -> UNCHANGED <<selected_nodes, current_selection>>
  /\ UNCHANGED <<view, graph_signal, workflow, node_positions, dragging_node,
                 editing_mode, active_tab, panicked>>
  /\ UNCHANGED <<loaderVars, uriVars>>

\* Lines 105-109 and 111-129: both handlers have empty arms only.
flow_handle_canvas_click ==
  /\ view = "flow" /\ Clickable
  /\ UNCHANGED editorVars
  /\ UNCHANGED <<loaderVars, uriVars>>

flow_handle_edge_click(edge_idx) ==
  /\ view = "flow" /\ Clickable
  /\ edge_idx \in RenderedEdges(workflow.graph)
  /\ UNCHANGED editorVars
  /\ UNCHANGED <<loaderVars, uriVars>>

flow_set_normal_mode ==
  /\ view = "flow" /\ Clickable
  /\ editing_mode' = "Normal"
  /\ selected_nodes' = <<>>
  /\ UNCHANGED <<view, graph_signal, workflow, node_positions, dragging_node,
                 current_selection, active_tab, panicked>>
  /\ UNCHANGED <<loaderVars, uriVars>>

flow_set_add_edge_mode ==
  /\ view = "flow" /\ Clickable
  /\ active_tab = "Edge"
  /\ editing_mode' = "AddEdge"
  /\ selected_nodes' = <<>>
  /\ UNCHANGED <<view, graph_signal, workflow, node_positions, dragging_node,
                 current_selection, active_tab, panicked>>
  /\ UNCHANGED <<loaderVars, uriVars>>

flow_set_delete_edge_mode ==
  /\ view = "flow" /\ Clickable
  /\ active_tab = "Edge"
  /\ editing_mode' = "DeleteEdge"
  /\ selected_nodes' = <<>>
  /\ UNCHANGED <<view, graph_signal, workflow, node_positions, dragging_node,
                 current_selection, active_tab, panicked>>
  /\ UNCHANGED <<loaderVars, uriVars>>

flow_set_add_node_mode ==
  /\ view = "flow" /\ Clickable
  /\ active_tab = "Node"
  /\ editing_mode' = "AddNode"
  /\ UNCHANGED <<view, graph_signal, workflow, node_positions, dragging_node,
                 selected_nodes, current_selection, active_tab, panicked>>
  /\ UNCHANGED <<loaderVars, uriVars>>

flow_set_delete_node_mode ==
  /\ view = "flow" /\ Clickable
  /\ active_tab = "Node"
  /\ editing_mode' = "DeleteNode"
  /\ UNCHANGED <<view, graph_signal, workflow, node_positions, dragging_node,
                 selected_nodes, current_selection, active_tab, panicked>>
  /\ UNCHANGED <<loaderVars, uriVars>>

flow_switch_to_node_tab ==
  /\ view = "flow" /\ Clickable
  /\ active_tab' = "Node"
  /\ editing_mode' = "Normal"
  /\ UNCHANGED <<view, graph_signal, workflow, node_positions, dragging_node,
                 selected_nodes, current_selection, panicked>>
  /\ UNCHANGED <<loaderVars, uriVars>>

flow_switch_to_edge_tab ==
  /\ view = "flow" /\ Clickable
  /\ active_tab' = "Edge"
  /\ editing_mode' = "Normal"
  /\ UNCHANGED <<view, graph_signal, workflow, node_positions, dragging_node,
                 selected_nodes, current_selection, panicked>>
  /\ UNCHANGED <<loaderVars, uriVars>>

(***************************************************************************)
(* The graphs the editors are started on                                   *)
(***************************************************************************)

\* The graph of GraphPage (src/src/views/graph.rs): four cities, five roads.
Cities == <<"New York", "Los Angeles", "Chicago", "Houston">>

PageEdges ==
  << <<0, 1, 100>>, <<0, 2, 50>>, <<2, 3, 75>>, <<1, 3, 120>>, <<3, 1, 110>> >>

EdgeWithin(n, e) == e[1] < n /\ e[2] < n

EdgesWithin(n) ==
  LET RECURSIVE From(_)
      From(j) == IF j > Len(PageEdges) THEN <<>>
                 ELSE (IF EdgeWithin(n, PageEdges[j]) THEN <<PageEdges[j]>>
                       ELSE <<>>) \o From(j + 1)
  IN From(1)

\* The first n nodes of `weights` and the first m edges among them.
BuildPetGraph(weights, n, m, EdgeWeight(_)) ==
  LET es == EdgesWithin(n)
  IN [nodes |-> SubSeq(weights, 1, n),
      edges |-> [j \in 1..m |-> [source |-> es[j][1], target |-> es[j][2],
                                 weight |-> EdgeWeight(es[j]), age |-> j]]]

GraphSizes ==
  {s \in (0..Min({MaxEditorNodes, Len(Cities)})) \X (0..MaxEditorEdges) :
     s[2] <= Len(EdgesWithin(s[1]))}

RoadLength(e) == e[3]

InitialGraphs ==
  {BuildPetGraph(Cities, s[1], s[2], RoadLength) : s \in GraphSizes}

\* Workflows as the loader returns them, and with edges between their nodes.
WorkflowNodes ==
  [j \in 1..Len(Cities) |-> [id |-> <<"n", j>>, name |-> Cities[j]]]

WorkflowEdge(e) == [id |-> <<"e", e[1], e[2]>>, name |-> "E"]

LoadedWorkflows ==
  {[id |-> "w", name |-> "W",
    graph |-> BuildPetGraph(WorkflowNodes, s[1], s[2], WorkflowEdge)] :
     s \in GraphSizes}

\* No load and no call of Uri::parse_str is under way.
LoaderIdle ==
  /\ fs = NoFiles /\ env = {} /\ pc = "idle" /\ yaml_content = <<>>
  /\ workflow_def = NoDefinition /\ graphs_iter = 0 /\ graph = EmptyGraph
  /\ result = [kind |-> "none"]

\* Graph mounted with initial_positions: None (lines 40-80), or Flow mounted
\* on a workflow (flow.rs 11-46).
EditorInit ==
  /\ \/ /\ view = "graph"
        /\ graph_signal \in InitialGraphs
        /\ workflow = NoWorkflow
        /\ node_positions = DefaultLayout(graph_signal)
     \/ /\ view = "flow"
        /\ workflow \in LoadedWorkflows
        /\ graph_signal = EmptyPetGraph
        /\ node_positions = DefaultLayout(workflow.graph)
  /\ dragging_node = <<>>
  /\ editing_mode = "Normal"
  /\ selected_nodes = <<>>
  /\ current_selection = [kind |-> "None"]
  /\ active_tab = "Node"
  /\ panicked = FALSE
  /\ LoaderIdle /\ UriIdle

EditorNext ==
  \/ graph_handle_mousemove
  \/ graph_handle_mouseup
  \/ \E node_idx \in NodeIndexes : graph_handle_drag_start(node_idx)
  \/ \E node_idx \in NodeIndexes : graph_handle_node_click(node_idx)
  \/ graph_handle_canvas_click
  \/ \E edge_idx \in EdgeIndexes : graph_handle_edge_click(edge_idx)
  \/ graph_set_normal_mode
  \/ graph_set_add_edge_mode
  \/ graph_set_delete_edge_mode
  \/ graph_set_add_node_mode
  \/ graph_set_delete_node_mode
  \/ graph_switch_to_node_tab
  \/ graph_switch_to_edge_tab
  \/ flow_handle_mousemove
  \/ flow_handle_mouseup
  \/ \E node_idx \in NodeIndexes : flow_handle_drag_start(node_idx)
  \/ \E node_idx \in NodeIndexes : flow_handle_node_click(node_idx)
  \/ flow_handle_canvas_click
  \/ \E edge_idx \in EdgeIndexes : flow_handle_edge_click(edge_idx)
  \/ flow_set_normal_mode
  \/ flow_set_add_edge_mode
  \/ flow_set_delete_edge_mode
  \/ flow_set_add_node_mode
  \/ flow_set_delete_node_mode
  \/ flow_switch_to_node_tab
  \/ flow_switch_to_edge_tab

EditorSpec == EditorInit /\ [][EditorNext]_vars

\* C26: in the Graph component the keys of node_positions are the node
\* indices of the graph, so every node of the graph is drawn.
C26_PositionsMatchNodes ==
  view = "graph" => DOMAIN node_positions = node_indices(graph_signal)

\* C27: in the Graph component no handler has panicked in add_edge, every
\* edge of the graph joins two different nodes of the graph, at most one
\* node is pending for a new edge, and in AddEdge mode the pending node is a
\* node of the graph.
C27_AddedEdgesJoinNodes ==
  view = "graph"
    => /\ ~panicked
       /\ Len(selected_nodes) <= 1
       /\ editing_mode = "AddEdge"
            => \A j \in 1..Len(selected_nodes) :
                 selected_nodes[j] \in node_indices(graph_signal)
       /\ \A j \in 1..Len(graph_signal.edges) :
            /\ graph_signal.edges[j].source # graph_signal.edges[j].target
            /\ graph_signal.edges[j].source \in node_indices(graph_signal)
            /\ graph_signal.edges[j].target \in node_indices(graph_signal)

\* An edge was added by two clicks after a node and an edge had been
\* deleted: the graph has a node "New Node" and an edge of weight 1 ends
\* at it.
C27_Witness ==
  /\ view = "graph" /\ editing_mode = "AddEdge" /\ selected_nodes = <<>>
  /\ \E j \in 1..Len(graph_signal.edges) :
       /\ graph_signal.edges[j].weight = 1
       /\ graph_signal.nodes[graph_signal.edges[j].target + 1] = "New Node"

\* The element current_selection names is in the graph.
SelectionExists ==
  CASE current_selection.kind = "Node" ->
         current_selection.idx \in node_indices(graph_signal)
    [] current_selection.kind = "Edge" ->
         current_selection.idx \in edge_indices(graph_signal)
    [] OTHER -> TRUE

\* A step that takes a node or an edge out of the graph.
RemovesElement ==
  \/ Len(graph_signal'.nodes) < Len(graph_signal.nodes)
  \/ Len(graph_signal'.edges) < Len(graph_signal.edges)

\* A step that selects an element: the element is drawn and the step leaves
\* the graph as it is.
SelectsDrawnElement ==
  /\ graph_signal' = graph_signal
  /\ current_selection'.kind = "Node"
       => current_selection'.idx \in RenderedNodes(graph_signal)
  /\ current_selection'.kind = "Edge"
       => current_selection'.idx \in RenderedEdges(graph_signal)

\* C28: in the Graph component current_selection is None or names a node
\* or an edge of the graph; a step that sets it names an element that is
\* drawn, and every step that removes a node or an edge sets it to None, so
\* no index it holds is ever taken over by another element.
C28_SelectionExists ==
  /\ [](view = "graph" => SelectionExists)
  /\ [][view = "graph"
          => /\ RemovesElement => current_selection' = [kind |-> "None"]
             /\ (/\ current_selection' # current_selection
                 /\ current_selection'.kind # "None")
                  => SelectsDrawnElement]_vars

\* The last edge of the graph is selected after another edge was deleted:
\* the graph was started with two edges, has one of weight 1 now, and that
\* one is selected.
C28_Witness ==
  /\ view = "graph"
  /\ current_selection.kind = "Edge"
  /\ current_selection.idx = Len(graph_signal.edges) - 1
  /\ graph_signal.edges[Len(graph_signal.edges)].weight = 1

TabFitsMode ==
  /\ active_tab = "Node" => editing_mode \in {"Normal", "AddNode", "DeleteNode"}
  /\ active_tab = "Edge" => editing_mode \in {"Normal", "AddEdge", "DeleteEdge"}

\* C29: in both components the mode is one of the modes whose button the
\* active tab shows, and every change of the tab sets the mode to Normal.
C29_ModeFitsTab ==
  /\ [](view \in {"graph", "flow"} => TabFitsMode)
  /\ [][active_tab' # active_tab => editing_mode' = "Normal"]_vars

\* The Flow component is back on the Nodes tab in Normal mode with a node
\* still pending from the AddEdge mode the Edges tab was left in.
C29_Witness ==
  /\ view = "flow" /\ active_tab = "Node" /\ editing_mode = "Normal"
  /\ selected_nodes # <<>>

\* C30: no step of the Flow component changes the workflow.
C30_WorkflowUnchanged == [][view = "flow" => workflow' = workflow]_vars

\* The Flow component is in DeleteNode mode after a node was clicked in
\* AddEdge mode and a node was dragged, on a workflow with edges.
C30_Witness ==
  /\ view = "flow" /\ editing_mode = "DeleteNode"
  /\ selected_nodes # <<>>
  /\ \E i \in DOMAIN node_positions : node_positions[i] \in MousePoints
  /\ workflow.graph.edges # <<>>
  /\ node_count(workflow.graph) > 1

====
